---- MODULE Spec2Model ----
(***************************************************************************)
(* Model of the threat-scoring and caching pipeline of email-intel-hub:    *)
(* src/email-intel-agent.js (class EmailIntelAgent), the parser of         *)
(* src/email-parser.js and the lists of the configuration module.          *)
(*                                                                         *)
(* Texts are TLA+ strings and are searched, lower-cased, split and hashed  *)
(* character by character, as the JavaScript does.  Confidences are kept   *)
(* in hundredths (0.7 is 70) and risk scores in hundredths of a point      *)
(* (25 is 2500), so every sum of the code is an exact integer here; the    *)
(* rounding of IEEE doubles is not modelled.                               *)
(***************************************************************************)
EXTENDS Integers, Sequences, FiniteSets, TLC

(***************************************************************************)
(* Strings                                                                 *)
(***************************************************************************)
UpperChars == "ABCDEFGHIJKLMNOPQRSTUVWXYZ"
LowerChars == "abcdefghijklmnopqrstuvwxyz"
\* the printable ASCII characters: codes 32..95 and 97..126 (the grave accent,
\* code 96, cannot be written in a TLA+ string and occurs in no modelled text)
Printable ==
    " !\"#$%&'()*+,-./0123456789:;<=>?@ABCDEFGHIJKLMNOPQRSTUVWXYZ[\\]^_"
    \o "abcdefghijklmnopqrstuvwxyz{|}~"

charAt(s, i) == SubSeq(s, i, i)

Min2(a, b) == IF a < b THEN a ELSE b
Max2(a, b) == IF a > b THEN a ELSE b

\* position (1-based) of the one-character string c in table, 0 when absent
PosIn(table, c) ==
    LET hits == {i \in 1..Len(table) : charAt(table, i) = c}
    IN IF hits = {} THEN 0 ELSE CHOOSE i \in hits : \A j \in hits : i <= j

\* U+0130 (capital I with dot above) and U+0307 (combining dot above) cannot
\* be written in a TLA+ string: the form feed stands for the first and "~" for
\* the second, and no modelled text uses them for anything else
CapitalIWithDot == "\f"
CombiningDot == "~"

\* String.prototype.toLowerCase: the letters A-Z, and U+0130, which Unicode's
\* locale-independent mapping lower-cases to the two code units "i" U+0307
RECURSIVE toLowerCase(_)
toLowerCase(s) ==
    IF Len(s) = 0 THEN ""
    ELSE IF Len(s) = 1
    THEN IF s = CapitalIWithDot THEN "i" \o CombiningDot
         ELSE LET p == PosIn(UpperChars, s) IN IF p = 0 THEN s ELSE charAt(LowerChars, p)
    ELSE LET h == Len(s) \div 2
         IN toLowerCase(SubSeq(s, 1, h)) \o toLowerCase(SubSeq(s, h + 1, Len(s)))

\* String.prototype.includes
includes(s, k) ==
    \E i \in 0..(Len(s) - Len(k)) : SubSeq(s, i + 1, i + Len(k)) = k

startsWith(s, k) == Len(s) >= Len(k) /\ SubSeq(s, 1, Len(k)) = k

\* first position >= from of a character of the set cs, Len(s) + 1 when none
firstOf(s, cs, from) ==
    LET hits == {i \in from..Len(s) : charAt(s, i) \in cs}
    IN IF hits = {} THEN Len(s) + 1 ELSE CHOOSE i \in hits : \A j \in hits : i <= j

\* String.prototype.lastIndexOf for a one-character string, 1-based, 0 when absent
lastIndexOf(s, c) ==
    LET hits == {i \in 1..Len(s) : charAt(s, i) = c}
    IN IF hits = {} THEN 0 ELSE CHOOSE i \in hits : \A j \in hits : i >= j

\* String.prototype.split on the separators of the set seps; a run of
\* separators is one separator when runs is TRUE (the regular expression /\s+/)
RECURSIVE splitOn(_, _, _)
splitOn(s, seps, runs) ==
    LET p == firstOf(s, seps, 1) IN
    IF p > Len(s) THEN <<s>>
    ELSE LET q == IF runs
                  THEN firstOf(s, {charAt(Printable, i) : i \in 1..Len(Printable)} \ seps, p)
                  ELSE p + 1
         IN <<SubSeq(s, 1, p - 1)>> \o splitOn(SubSeq(s, q, Len(s)), seps, runs)

\* number of characters of s that belong to the table
countChars(s, table) == Cardinality({i \in 1..Len(s) : PosIn(table, charAt(s, i)) > 0})

\* how many entries of the list occur in the text
countIncluded(content, list) ==
    Cardinality({i \in 1..Len(list) : includes(content, list[i])})

listIncludes(list, x) == \E i \in 1..Len(list) : list[i] = x

(***************************************************************************)
(* Configuration (CONFIG.AI, CONFIG.THREATS)                               *)
(***************************************************************************)
\* CONFIG.AI.THREAT_CONFIDENCE_THRESHOLD = 0.7, in hundredths
THREAT_CONFIDENCE_THRESHOLD == 70

PHISHING_KEYWORDS ==
    << "urgent", "immediate", "verify", "suspend", "click here", "act now",
       "limited time", "expires", "confirm", "update", "security alert",
       "account locked", "unusual activity", "verify identity" >>

SUSPICIOUS_DOMAINS == << "bit.ly", "tinyurl.com", "goo.gl", "t.co" >>

MALWARE_EXTENSIONS ==
    << ".exe", ".scr", ".bat", ".cmd", ".com", ".pif", ".vbs", ".js",
       ".jar", ".zip", ".rar", ".7z", ".docm", ".xlsm", ".pptm" >>

ThreatTypes ==
    {"phishing", "malware", "spam", "socialEngineering", "businessEmailCompromise"}

(***************************************************************************)
(* Helpers of EmailParser used by the agent                                *)
(***************************************************************************)
\* filename.toLowerCase().substring(filename.lastIndexOf('.')); lastIndexOf
\* gives -1 for a name without a dot and substring(-1) is the whole string
getFileExtension(filename) ==
    LET low == toLowerCase(filename)
        p == lastIndexOf(filename, ".")
    IN IF p = 0 THEN low ELSE SubSeq(low, p, Len(low))

\* email.match(/@([^>\s]+)/): the text after the first "@" that is followed
\* by a character other than ">" and white space, lower-cased; "" stands for null
extractDomainFromEmail(from) ==
    LET stop == {">", " "}
        ats == {i \in 1..(Len(from) - 1) :
                    charAt(from, i) = "@" /\ charAt(from, i + 1) \notin stop}
    IN IF ats = {} THEN ""
       ELSE LET a == CHOOSE i \in ats : \A j \in ats : i <= j
                e == firstOf(from, stop, a + 1)
            IN toLowerCase(SubSeq(from, a + 1, e - 1))

(***************************************************************************)
(* new URL(url) for the http and https URLs the parser extracts            *)
(***************************************************************************)
RECURSIVE joinWith(_, _)
joinWith(parts, sep) ==
    IF Len(parts) = 0 THEN ""
    ELSE IF Len(parts) = 1 THEN parts[1]
    ELSE parts[1] \o sep \o joinWith(Tail(parts), sep)

\* the path's segments with "." dropped and ".." removing the segment before it
RECURSIVE dotSegments(_, _, _)
dotSegments(segs, i, out) ==
    IF i > Len(segs) THEN out
    ELSE LET seg == toLowerCase(segs[i])
             last == (i = Len(segs))
             double == seg \in {"..", ".%2e", "%2e.", "%2e%2e"}
             single == seg \in {".", "%2e"}
             popped == IF Len(out) = 0 THEN out ELSE SubSeq(out, 1, Len(out) - 1)
         IN IF double
            THEN dotSegments(segs, i + 1, IF last THEN Append(popped, "") ELSE popped)
            ELSE IF single
            THEN dotSegments(segs, i + 1, IF last THEN Append(out, "") ELSE out)
            ELSE dotSegments(segs, i + 1, Append(out, segs[i]))

\* [ok, hostname, pathname]; ok is FALSE where the constructor throws
parseURL(url) ==
    LET low == toLowerCase(url)
        skip == IF startsWith(low, "https://") THEN 8
                ELSE IF startsWith(low, "http://") THEN 7 ELSE 0
        rest == SubSeq(url, skip + 1, Len(url))
        aEnd == firstOf(rest, {"/", "?", "#"}, 1)
        auth == SubSeq(rest, 1, aEnd - 1)
        at == lastIndexOf(auth, "@")
        hostPort == SubSeq(auth, at + 1, Len(auth))
        host == toLowerCase(SubSeq(hostPort, 1, firstOf(hostPort, {":"}, 1) - 1))
        forbidden == {" ", "<", ">", "^", "|", "[", "]", "\\"}
        pEnd == firstOf(rest, {"?", "#"}, 1)
        rawPath == IF aEnd > Len(rest) \/ charAt(rest, aEnd) # "/" THEN ""
                   ELSE SubSeq(rest, aEnd + 1, pEnd - 1)
        path == "/" \o joinWith(dotSegments(splitOn(rawPath, {"/"}, FALSE), 1, <<>>), "/")
    IN [ok |-> skip > 0 /\ Len(host) > 0
                /\ \A i \in 1..Len(host) : charAt(host, i) \notin forbidden,
        hostname |-> host,
        pathname |-> path]

isSuspiciousURL(url) ==
    LET u == parseURL(url) IN
    IF ~u.ok THEN TRUE
    ELSE \/ includes(u.hostname, "xn--")
         \/ Len(splitOn(u.hostname, {"."}, FALSE)) > 4
         \/ includes(u.pathname, "..")

(***************************************************************************)
(* Domain spoofing: Levenshtein similarity                                 *)
(***************************************************************************)
\* one row of the matrix: cur[j + 1] is matrix[i][j], prev is row i - 1
RECURSIVE levRow(_, _, _, _, _)
levRow(str1, c2, prev, cur, j) ==
    IF Len(cur) > Len(str1) THEN cur
    ELSE LET v == IF c2 = charAt(str1, j) THEN prev[j]
                  ELSE Min2(prev[j] + 1, Min2(cur[j] + 1, prev[j + 1] + 1))
         IN levRow(str1, c2, prev, Append(cur, v), j + 1)

RECURSIVE levRows(_, _, _, _)
levRows(str1, str2, prev, i) ==
    IF Len(prev) = 0 \/ i > Len(str2) THEN prev
    ELSE levRows(str1, str2, levRow(str1, charAt(str2, i), prev, <<i>>, 1), i + 1)

levenshteinDistance(str1, str2) ==
    levRows(str1, str2, [j \in 1..(Len(str1) + 1) |-> j - 1], 1)[Len(str1) + 1]

\* similarity = (longer.length - distance) / longer.length, as the pair
\* <<numerator, denominator>>; <<1, 1>> for two empty strings
calculateStringSimilarity(str1, str2) ==
    LET longer == IF Len(str1) > Len(str2) THEN str1 ELSE str2
        shorter == IF Len(str1) > Len(str2) THEN str2 ELSE str1
    IN IF Len(longer) = 0 THEN <<1, 1>>
       ELSE <<Len(longer) - levenshteinDistance(longer, shorter), Len(longer)>>

\* similarity > 0.8 && similarity < 1.0
isSpoofedDomain(domain) ==
    LET legitimateDomains == << "google.com", "microsoft.com", "apple.com", "amazon.com" >>
    IN \E k \in 1..Len(legitimateDomains) :
          LET sim == calculateStringSimilarity(domain, legitimateDomains[k])
          IN 5 * sim[1] > 4 * sim[2] /\ sim[1] < sim[2]

\* a double-extension test that asks for more than three parts
hasDoubleExtensionThreeDots(filename) ==
    IF Len(filename) = 0 THEN FALSE
    ELSE LET parts == splitOn(filename, {"."}, FALSE)
         IN Len(parts) > 3 /\ listIncludes(MALWARE_EXTENSIONS, "." \o parts[Len(parts)])

hasDoubleExtension(filename) ==
    IF Len(filename) = 0 THEN FALSE
    ELSE LET parts == splitOn(filename, {"."}, FALSE)
         IN Len(parts) > 2 /\ listIncludes(MALWARE_EXTENSIONS, "." \o parts[Len(parts)])

\* caps / letters > 0.3
capsOver30(text) ==
    LET caps == countChars(text, UpperChars)
        letters == caps + countChars(text, LowerChars)
    IN letters > 0 /\ 10 * caps > 3 * letters

\* punctuation / text.length > 0.1
punctuationOver10(text) == Len(text) > 0 /\ 10 * countChars(text, "!?.,;:") > Len(text)

(***************************************************************************)
(* The five detectors.  An email is a record                               *)
(*   [kind, hasHeaders, subject, from, body, attachments, urls]            *)
(* where attachments lists the attachments' file names and urls is         *)
(* metadata.urls.  A result is [detected, confidence]; the indicators list *)
(* is explanatory text that nothing reads and is left out.                 *)
(***************************************************************************)
RECURSIVE seqSum(_)
seqSum(q) == IF Len(q) = 0 THEN 0 ELSE q[1] + seqSum(Tail(q))

DetectorResult(confidence) ==
    [detected |-> confidence >= THREAT_CONFIDENCE_THRESHOLD, confidence |-> confidence]

\* the URL checks without the lookup in SUSPICIOUS_DOMAINS
phishingUrlScoreNoDomainList(url) ==
    LET u == parseURL(url) IN
    IF ~u.ok THEN 10 ELSE (IF isSuspiciousURL(url) THEN 20 ELSE 0)

phishingUrlScore(url) ==
    LET u == parseURL(url) IN
    IF ~u.ok THEN 10
    ELSE (IF listIncludes(SUSPICIOUS_DOMAINS, u.hostname) THEN 15 ELSE 0)
         + (IF isSuspiciousURL(url) THEN 20 ELSE 0)

phishingSum(email) ==
    LET content == toLowerCase(email.body \o " " \o email.subject)
        fromDomain == extractDomainFromEmail(email.from)
    IN 10 * countIncluded(content, PHISHING_KEYWORDS)
       + seqSum([i \in 1..Len(email.urls) |-> phishingUrlScore(email.urls[i])])
       + (IF Len(email.from) > 0 /\ Len(fromDomain) > 0 /\ isSpoofedDomain(fromDomain)
          THEN 30 ELSE 0)
       + 5 * countIncluded(content, << "urgent", "immediate", "asap", "expires", "deadline" >>)

detectPhishing(email) == DetectorResult(Min2(100, phishingSum(email)))

malwareAttachmentScore(filename) ==
    (IF listIncludes(MALWARE_EXTENSIONS, getFileExtension(filename)) THEN 40 ELSE 0)
    + (IF hasDoubleExtension(filename) THEN 30 ELSE 0)

malwareSum(email) ==
    seqSum([i \in 1..Len(email.attachments) |-> malwareAttachmentScore(email.attachments[i])])
    + 5 * countIncluded(toLowerCase(email.body),
                        << "download", "install", "run", "execute", "macro", "enable" >>)

\* detectMalware without its Math.min(1, confidence)
detectMalwareUnclamped(email) == DetectorResult(malwareSum(email))

detectMalware(email) == DetectorResult(Min2(100, malwareSum(email)))

spamSum(email) ==
    LET spamKeywords ==
            << "free", "win", "winner", "congratulations", "prize", "lottery",
               "money", "cash", "earn", "income", "investment", "guarantee",
               "limited time", "act now", "call now", "click here" >>
    IN 8 * countIncluded(toLowerCase(email.body \o " " \o email.subject), spamKeywords)
       + (IF capsOver30(email.body) THEN 20 ELSE 0)
       + (IF punctuationOver10(email.body) THEN 15 ELSE 0)

detectSpam(email) == DetectorResult(Min2(100, spamSum(email)))

socialEngineeringSum(email) ==
    LET seKeywords ==
            << "verify", "confirm", "update", "suspend", "locked", "security",
               "unauthorized", "unusual activity", "click here", "login" >>
        authorityKeywords ==
            << "bank", "paypal", "amazon", "microsoft", "google", "apple" >>
        content == toLowerCase(email.body \o " " \o email.subject)
    IN 10 * countIncluded(content, seKeywords) + 15 * countIncluded(content, authorityKeywords)

detectSocialEngineering(email) == DetectorResult(Min2(100, socialEngineeringSum(email)))

becSum(email) ==
    LET becKeywords ==
            << "wire transfer", "payment", "invoice", "urgent payment", "bank details",
               "account change", "vendor", "supplier", "ceo", "president",
               "urgent request" >>
        executiveTitles == << "ceo", "cfo", "president", "director", "manager" >>
        content == toLowerCase(email.body)
        subject == toLowerCase(email.subject)
    IN 15 * Cardinality({i \in 1..Len(becKeywords) :
                            includes(content, becKeywords[i]) \/ includes(subject, becKeywords[i])})
       + 20 * countIncluded(toLowerCase(email.from), executiveTitles)

detectBEC(email) == DetectorResult(Min2(100, becSum(email)))

\* a null in email.attachments is written as this file name
NullAttachment == "<null>"

\* detectMalware reads attachment.filename: a TypeError for a null attachment
detectMalwareThrows(email) ==
    \E i \in 1..Len(email.attachments) : email.attachments[i] = NullAttachment

\* assessThreats awaits the detectors one after the other outside any try:
\* reading email.headers.subject throws when the email has no headers,
\* detectMalware throws for a null attachment, and the promise rejects
assessThreatsThrows(email) == ~email.hasHeaders \/ detectMalwareThrows(email)

assessThreats(email) ==
    [phishing |-> detectPhishing(email),
     malware |-> detectMalware(email),
     spam |-> detectSpam(email),
     socialEngineering |-> detectSocialEngineering(email),
     businessEmailCompromise |-> detectBEC(email)]

(***************************************************************************)
(* Sentiment and the aggregator                                            *)
(***************************************************************************)
\* score = (positive - negative) / totalWords, kept as the pair [num, den];
\* "".split(/\s+/) is [""], so den >= 1 and the score lies in [-1, 1]
analyzeSentiment(email) ==
    LET positiveWords ==
            {"good", "great", "excellent", "amazing", "wonderful", "fantastic", "love",
             "like", "happy", "pleased"}
        negativeWords ==
            {"bad", "terrible", "awful", "hate", "dislike", "angry", "frustrated",
             "disappointed", "sad", "upset"}
        words == splitOn(toLowerCase(email.body), {" "}, TRUE)
        positiveScore == Cardinality({i \in 1..Len(words) : words[i] \in positiveWords})
        negativeScore == Cardinality({i \in 1..Len(words) : words[i] \in negativeWords})
    IN [num |-> positiveScore - negativeScore, den |-> Len(words)]

\* the value the catch handler of assessThreats substitutes has the keys
\* detected, confidence, indicators and threats, none of which holds an
\* object with a truthy "detected": the aggregator then counts nothing
ThreatOrder ==
    << "phishing", "malware", "spam", "socialEngineering", "businessEmailCompromise" >>

NoThreats ==
    [t \in ThreatTypes |-> [detected |-> FALSE, confidence |-> 0]]

\* the weights of spam and socialEngineering exchanged
threatWeightsSpamFirst ==
    [phishing |-> 30, malware |-> 25, spam |-> 20, socialEngineering |-> 15,
     businessEmailCompromise |-> 10]

\* threatWeights of calculateOverallAssessment, in hundredths
threatWeights ==
    [phishing |-> 30, malware |-> 25, spam |-> 15, socialEngineering |-> 20,
     businessEmailCompromise |-> 10]

mapThreatToCategory(threatType) ==
    CASE threatType = "phishing" -> "phishing"
      [] threatType = "malware" -> "malware"
      [] threatType = "spam" -> "spam"
      [] threatType = "socialEngineering" -> "social_engineering"
      [] threatType = "businessEmailCompromise" -> "bec"
      [] OTHER -> "legitimate"

\* the loop with >= in place of >: the last of several equal confidences wins
RECURSIVE weighThreatsLastWins(_, _, _, _)
weighThreatsLastWins(keyOrder, threatAssessment, i, acc) ==
    IF i > Len(keyOrder) THEN acc
    ELSE LET threatType == keyOrder[i]
             assessment == threatAssessment[threatType]
         IN IF ~assessment.detected
            THEN weighThreatsLastWins(keyOrder, threatAssessment, i + 1, acc)
            ELSE weighThreatsLastWins(keyOrder, threatAssessment, i + 1,
                    [riskScore |-> acc.riskScore
                                    + assessment.confidence * threatWeights[threatType],
                     confidence |-> IF assessment.confidence >= acc.confidence
                                    THEN assessment.confidence ELSE acc.confidence,
                     category |-> IF assessment.confidence >= acc.confidence
                                  THEN mapThreatToCategory(threatType) ELSE acc.category])

\* the forEach over Object.entries(results.threatAssessment): keyOrder is the
\* order of the keys of the object
RECURSIVE weighThreatsIn(_, _, _, _)
weighThreatsIn(keyOrder, threatAssessment, i, acc) ==
    IF i > Len(keyOrder) THEN acc
    ELSE LET threatType == keyOrder[i]
             assessment == threatAssessment[threatType]
         IN IF ~assessment.detected
            THEN weighThreatsIn(keyOrder, threatAssessment, i + 1, acc)
            ELSE weighThreatsIn(keyOrder, threatAssessment, i + 1,
                    [riskScore |-> acc.riskScore
                                    + assessment.confidence * threatWeights[threatType],
                     confidence |-> IF assessment.confidence > acc.confidence
                                    THEN assessment.confidence ELSE acc.confidence,
                     category |-> IF assessment.confidence > acc.confidence
                                  THEN mapThreatToCategory(threatType) ELSE acc.category])

\* assessThreats builds the object with its keys in the order of ThreatOrder
weighThreats(threatAssessment, i, acc) ==
    weighThreatsIn(ThreatOrder, threatAssessment, i, acc)

riskLevelOf(riskScore) ==
    IF riskScore < 2500 THEN "low"
    ELSE IF riskScore < 5000 THEN "medium"
    ELSE IF riskScore < 7500 THEN "high"
    ELSE "critical"

\* riskScore is in hundredths of a point: 0..10000 stands for 0..100
overallAssessment(w, sentimentAnalysis) ==
    LET penalty == IF 2 * sentimentAnalysis.num < -sentimentAnalysis.den THEN 1000 ELSE 0
        riskScore == Min2(10000, Max2(0, w.riskScore + penalty))
    IN [riskScore |-> riskScore,
        riskLevel |-> riskLevelOf(riskScore),
        category |-> w.category,
        confidence |-> w.confidence]

NoWeight == [riskScore |-> 0, confidence |-> 0, category |-> "legitimate"]

calculateOverallAssessment(threatAssessment, sentimentAnalysis) ==
    overallAssessment(weighThreats(threatAssessment, 1, NoWeight), sentimentAnalysis)

(***************************************************************************)
(* generateCacheKey: a 32-bit hash of JSON.stringify({subject, from,       *)
(* body}).  A 32-bit integer is the pair <<high, low>> of its two 16-bit   *)
(* halves (two's complement), since 31 * hash exceeds TLC's integers.      *)
(***************************************************************************)
\* the number of body characters that enter the key
KeyBodyChars == 1000

charCodeAt(c) ==
    LET p == PosIn(Printable, c) IN IF p <= 64 THEN 31 + p ELSE 32 + p

\* JSON.stringify of a string: quotes around it, the quote and the backslash escaped
RECURSIVE jsonEscape(_)
jsonEscape(s) ==
    IF Len(s) = 0 THEN ""
    ELSE IF Len(s) = 1 THEN (IF s \in {"\"", "\\"} THEN "\\" \o s ELSE s)
    ELSE LET h == Len(s) \div 2
         IN jsonEscape(SubSeq(s, 1, h)) \o jsonEscape(SubSeq(s, h + 1, Len(s)))

\* headers?.subject and headers?.from are undefined without headers, and
\* JSON.stringify leaves an undefined property out
cacheKeyContent(email) ==
    LET jsonString(s) == "\"" \o jsonEscape(s) \o "\""
    IN "{" \o (IF email.hasHeaders
               THEN "\"subject\":" \o jsonString(email.subject) \o ","
                    \o "\"from\":" \o jsonString(email.from) \o ","
               ELSE "")
           \o "\"body\":"
           \o jsonString(SubSeq(email.body, 1, Min2(KeyBodyChars, Len(email.body))))
           \o "}"

\* hash = ((hash << 5) - hash) + char; hash = hash & hash
hashStep(hash, char) ==
    LET low == 31 * hash[2] + char
        high == 31 * hash[1] + (low \div 65536)
    IN << high % 65536, low % 65536 >>

\* the loop over content[from..to], left to right
RECURSIVE hashRange(_, _, _, _)
hashRange(content, from, to, hash) ==
    IF from > to \/ hash[1] < 0 THEN hash
    ELSE IF from = to THEN hashStep(hash, charCodeAt(charAt(content, from)))
    ELSE LET mid == (from + to) \div 2
         IN hashRange(content, mid + 1, to, hashRange(content, from, mid, hash))

\* the key "email_" + Math.abs(hash), as the two halves <<high, low>> of the
\* absolute value of the 32-bit hash
generateCacheKey(email) ==
    LET hash == hashRange(cacheKeyContent(email), 1, Len(cacheKeyContent(email)), <<0, 0>>)
    IN IF hash[1] < 32768 THEN hash
       ELSE << (65535 - hash[1]) + (IF hash[2] = 0 THEN 1 ELSE 0),
               (65536 - hash[2]) % 65536 >>

(***************************************************************************)
(* Inputs                                                                  *)
(***************************************************************************)
Email(kind, hasHeaders, subject, from, body, attachments, urls) ==
    [kind |-> kind, hasHeaders |-> hasHeaders, subject |-> subject, from |-> from,
     body |-> body, attachments |-> attachments, urls |-> urls]

\* the values analyzeEmail is called with: two well-formed emails with
\* different contents, the first email with an attachment added, null, a
\* value that is not an object, and the email the parser returns for an
\* empty file (no header, empty body)
Inputs ==
    << Email("object", TRUE, "Lunch", "alice@example.com",
             "Thanks for your help, see you Monday", <<>>, <<>>),
       Email("object", TRUE, "URGENT: verify your account", "CEO <ceo@gooogle.com>",
             "Verify and confirm your PayPal bank login: click here, act now",
             << "invoice.pdf.exe" >>, << "http://bit.ly/x" >>),
       Email("object", TRUE, "Lunch", "alice@example.com",
             "Thanks for your help, see you Monday", << "invoice.pdf.exe" >>, <<>>),
       Email("null", FALSE, "", "", "", <<>>, <<>>),
       Email("string", FALSE, "", "", "", <<>>, <<>>),
       Email("object", TRUE, "", "", "", <<>>, <<>>) >>

InputIds == 1..Len(Inputs)

\* !email || typeof email !== 'object'
isInvalidInput(email) == email.kind # "object"

\* the errors validateEmail lists; a missing header is the empty string here.
\* No method calls validateEmail.
validateEmail(email) ==
    (IF ~email.hasHeaders THEN {"Missing headers"}
     ELSE (IF email.from = "" THEN {"Missing From header"} ELSE {})
          \cup (IF email.subject = "" THEN {"Missing Subject header"} ELSE {}))
    \cup (IF email.body = "" /\ Len(email.attachments) = 0
          THEN {"Email has no body content or attachments"} ELSE {})

\* sanitizeEmailForStorage reads email.headers: a TypeError for null and undefined
sanitizeThrows(email) == email.kind = "null"

\* per input: the cache key and what the detectors, the sentiment analysis and
\* the aggregator compute for it
cacheKeyOf == [i \in InputIds |-> generateCacheKey(Inputs[i])]

\* this.assessThreats(email).catch(...): the threats, or the handler's value
threatAssessmentFor(email) ==
    IF assessThreatsThrows(email) THEN NoThreats ELSE assessThreats(email)

threatAssessmentOf == [i \in InputIds |-> threatAssessmentFor(Inputs[i])]

assessmentOf ==
    [i \in InputIds |->
        calculateOverallAssessment(threatAssessmentOf[i], analyzeSentiment(Inputs[i]))]

(***************************************************************************)
(* The agent.  JavaScript runs one task at a time: a call from outside, a  *)
(* timer callback, or a promise continuation (a microtask); microtasks run *)
(* before the next timer or outside call.                                  *)
(***************************************************************************)
\* setupCacheCleanup's maxCacheSize (1000 in the source, scaled down)
maxCacheSize == 2
\* CONFIG.AI.MAX_ANALYSIS_BATCH_SIZE (50 in the source, scaled down)
MAX_ANALYSIS_BATCH_SIZE == 2
\* addToLearningData keeps the last 1000 entries (scaled down)
maxLearningData == 2

\* bounds of the model
MaxCalls == 2
MaxBatchLen == 3
\* calls of initialize() from outside that are under way at once
MaxInitializeCalls == 1

VARIABLES
    isInitialized,   \* this.isInitialized
    cleanupTimers,   \* number of setInterval timers setupCacheCleanup created
    analysisCache,   \* this.analysisCache: the Map's entries in insertion order
    stats,           \* this.stats
    learningData,    \* this.learningData (the ids of the analyses pushed)
    nextId,          \* the ids generateAnalysisId has handed out so far, plus one
    calls,           \* every analyzeEmail call made so far
    timerQueue,      \* calls waiting for a 100 ms timer of initialize, in order;
                     \* -1 and -2 are a call of initialize() from outside that
                     \* waits in loadThreatSignatures and in loadMLModels
    micro,           \* pending promise continuations, in order
    batch,           \* the analyzeEmailBatch call
    probe            \* input and output of a function applied on its own

agentVars ==
    << isInitialized, cleanupTimers, analysisCache, stats, learningData, nextId,
       calls, timerQueue, micro, batch >>
vars == << isInitialized, cleanupTimers, analysisCache, stats, learningData, nextId,
           calls, timerQueue, micro, batch, probe >>

\* the methods whose call returns a promise (declared async); analyzeSentiment,
\* extractTopics, recognizeEntities, analyzeCommunicationPatterns and
\* addToLearningData are plain methods: calling .catch on what they return
\* throws a TypeError
\* every method that analyzeEmail chains .catch to declared async
allMethodsAsync ==
    {"assessThreats", "calculateOverallAssessment", "analyzeSentiment", "extractTopics",
     "recognizeEntities", "analyzeCommunicationPatterns", "addToLearningData"}

\* the five analyzers declared async, addToLearningData left as it is
analyzersAsync ==
    {"assessThreats", "calculateOverallAssessment", "analyzeSentiment", "extractTopics",
     "recognizeEntities", "analyzeCommunicationPatterns"}

asyncMethods == {"assessThreats", "calculateOverallAssessment"}

\* the calls of the Promise.all array of analyzeEmail, each followed by .catch
analyzerCalls ==
    << "assessThreats", "analyzeSentiment", "extractTopics", "recognizeEntities",
       "analyzeCommunicationPatterns" >>

NoKey == <<>>
\* An analysis object.  Its id and timestamp are written by the same statement
\* when the object is created and by no other: id stands for both.
NoAnalysis ==
    [id |-> 0, error |-> FALSE, riskScore |-> 0, riskLevel |-> "undefined",
     category |-> "none", confidence |-> 0, cacheKey |-> NoKey]

\* the fallback object of analyzeEmail's catch block: no riskLevel, no cacheKey
FallbackAnalysis(id) ==
    [id |-> id, error |-> TRUE, riskScore |-> 0,
     riskLevel |-> "undefined", category |-> "unknown", confidence |-> 0, cacheKey |-> NoKey]

\* the analysis object of a completed analysis
withMetadata(assessment, id, cacheKey) ==
    [id |-> id, error |-> FALSE,
     riskScore |-> assessment.riskScore,
     riskLevel |-> assessment.riskLevel,
     category |-> assessment.category,
     confidence |-> assessment.confidence,
     cacheKey |-> cacheKey]

CompletedAnalysis(id, input) == withMetadata(assessmentOf[input], id, cacheKeyOf[input])

\* the state as one record, threaded through the steps of a task
State ==
    [isInitialized |-> isInitialized, cleanupTimers |-> cleanupTimers,
     analysisCache |-> analysisCache, stats |-> stats, learningData |-> learningData,
     nextId |-> nextId, calls |-> calls, timerQueue |-> timerQueue,
     micro |-> micro, batch |-> batch]

Becomes(s) ==
    /\ isInitialized' = s.isInitialized
    /\ cleanupTimers' = s.cleanupTimers
    /\ analysisCache' = s.analysisCache
    /\ stats' = s.stats
    /\ learningData' = s.learningData
    /\ nextId' = s.nextId
    /\ calls' = s.calls
    /\ timerQueue' = s.timerQueue
    /\ micro' = s.micro
    /\ batch' = s.batch

\* Map.has, Map.get, Map.set (a new key goes last, an old key keeps its place)
cacheHas(cache, key) == \E i \in 1..Len(cache) : cache[i].key = key
cacheGet(cache, key) == cache[CHOOSE i \in 1..Len(cache) : cache[i].key = key].value
cacheSet(cache, key, value) ==
    IF cacheHas(cache, key)
    THEN [i \in 1..Len(cache) |->
            IF cache[i].key = key THEN [key |-> key, value |-> value] ELSE cache[i]]
    ELSE Append(cache, [key |-> key, value |-> value])

\* the promise of call c settles
settle(s, c, status, value) ==
    [s EXCEPT !.calls[c].pc = "done", !.calls[c].status = status, !.calls[c].value = value]

\* analyzeEmail's catch block: the id is generated before sanitizeEmailForStorage
\* runs, which throws for null: then the call rejects
fallback(s, c) ==
    LET t == [s EXCEPT !.nextId = s.nextId + 1] IN
    IF sanitizeThrows(Inputs[s.calls[c].input])
    THEN settle(t, c, "rejected", NoAnalysis)
    ELSE settle(t, c, "fulfilled", FallbackAnalysis(s.nextId))

\* updateStats that counts a riskScore of 50 as a threat
updateStatsFrom50(st, analysis, processingTime) ==
    [st EXCEPT !.totalAnalyses = st.totalAnalyses + 1,
               !.averageProcessingTime = << st.averageProcessingTime[1] + processingTime,
                                            st.totalAnalyses + 1 >>,
               !.threatDetections = IF analysis.riskScore >= 5000
                                    THEN st.threatDetections + 1 ELSE st.threatDetections]

\* updateStats; averageProcessingTime is the pair <<sum, count>> of its mean
updateStats(st, analysis, processingTime) ==
    [st EXCEPT !.totalAnalyses = st.totalAnalyses + 1,
               !.averageProcessingTime = << st.averageProcessingTime[1] + processingTime,
                                            st.totalAnalyses + 1 >>,
               !.threatDetections = IF analysis.riskScore > 5000
                                    THEN st.threatDetections + 1 ELSE st.threatDetections]

\* addToLearningData's push and cut to the last maxLearningData entries
addToLearningData(data, analysis) ==
    LET d == Append(data, analysis.id) IN
    IF Len(d) > maxLearningData THEN SubSeq(d, Len(d) - maxLearningData + 1, Len(d)) ELSE d

\* the try block of analyzeEmail up to its first await
tryBlock(s, c) ==
    LET input == s.calls[c].input
        cacheKey == cacheKeyOf[input]
    IN IF isInvalidInput(Inputs[input]) THEN fallback(s, c)
       ELSE IF cacheHas(s.analysisCache, cacheKey)
       THEN settle([s EXCEPT !.stats.cacheHits = s.stats.cacheHits + 1,
                             !.calls[c].hit = TRUE],
                   c, "fulfilled", cacheGet(s.analysisCache, cacheKey))
       ELSE LET t == [s EXCEPT !.stats.cacheMisses = s.stats.cacheMisses + 1,
                               !.calls[c].missed = TRUE,
                               !.calls[c].analysisId = s.nextId,
                               !.nextId = s.nextId + 1]
            IN IF \E k \in 1..Len(analyzerCalls) : analyzerCalls[k] \notin asyncMethods
               THEN fallback(t, c)
               ELSE [t EXCEPT !.calls[c].pc = "awaitAll",
                              !.micro = Append(t.micro, << "call", c >>)]

\* after Promise.all: the results are combined and calculateOverallAssessment awaited
afterAll(s, c) ==
    [s EXCEPT !.calls[c].pc = "awaitAssessment", !.micro = Append(s.micro, << "call", c >>)]

\* after calculateOverallAssessment: the analysis gets its metadata and goes to
\* the cache, the statistics and the learning data
storeAnalysis(s, c, analysis, processingTime) ==
    [s EXCEPT !.analysisCache = cacheSet(s.analysisCache, analysis.cacheKey, analysis),
              !.stats = updateStats(s.stats, analysis, processingTime),
              !.learningData = addToLearningData(s.learningData, analysis),
              !.calls[c].stored = TRUE]

\* the rest of the try block; processingTime is Date.now() - startTime.
\* this.addToLearningData(analysis).catch(...) throws when the method returns
\* no promise
afterAssessment(s, c, analysis, processingTime) ==
    IF "addToLearningData" \notin asyncMethods
    THEN fallback(storeAnalysis(s, c, analysis, processingTime), c)
    ELSE settle(storeAnalysis(s, c, analysis, processingTime), c, "fulfilled", analysis)

\* analyzeEmail(email) is called: the call runs up to its first await
startCall(s, input, parent, index, chunk) ==
    LET c == Len(s.calls) + 1
        call == [input |-> input, parent |-> parent, index |-> index, chunk |-> chunk,
                 pc |-> "start", status |-> "pending", value |-> NoAnalysis,
                 analysisId |-> 0,
                 hit |-> FALSE, missed |-> FALSE, stored |-> FALSE,
                 after |-> {d \in 1..Len(s.calls) : s.calls[d].pc = "done"}]
        t == [s EXCEPT !.calls = Append(s.calls, call)]
    IN IF ~s.isInitialized
       \* initialize() runs up to the timer of loadThreatSignatures
       THEN [t EXCEPT !.calls[c].pc = "loadThreatSignatures",
                      !.timerQueue = Append(t.timerQueue, c)]
       ELSE tryBlock(t, c)

\* the oldest 100 ms timer expires and initialize() of that call goes on:
\* after loadThreatSignatures to the timer of loadMLModels, after loadMLModels
\* through setupCacheCleanup to the end, and analyzeEmail enters its try block
timerFired(s) ==
    LET c == Head(s.timerQueue)
        t == [s EXCEPT !.timerQueue = Tail(s.timerQueue)]
    IN IF c = -1 THEN [t EXCEPT !.timerQueue = Append(t.timerQueue, -2)]
       ELSE IF c = -2
       THEN [t EXCEPT !.cleanupTimers = t.cleanupTimers + 1, !.isInitialized = TRUE]
       ELSE IF s.calls[c].pc = "loadThreatSignatures"
       THEN [t EXCEPT !.calls[c].pc = "loadMLModels", !.timerQueue = Append(t.timerQueue, c)]
       ELSE tryBlock([t EXCEPT !.cleanupTimers = t.cleanupTimers + 1,
                               !.isInitialized = TRUE], c)

\* the cleanup callback of setupCacheCleanup
cleanup(cache) ==
    IF Len(cache) > maxCacheSize
    THEN SubSeq(cache, Len(cache) - maxCacheSize + 1, Len(cache))
    ELSE cache

\* initialize() called from outside: it returns at once when isInitialized
\* is set, and runs up to the timer of loadThreatSignatures otherwise
initialize(s) ==
    IF s.isInitialized THEN s ELSE [s EXCEPT !.timerQueue = Append(s.timerQueue, -1)]

\* a clearCache that also starts the statistics afresh
clearCacheResetsStats(s) ==
    [s EXCEPT !.analysisCache = <<>>,
              !.stats = [totalAnalyses |-> 0, threatDetections |-> 0,
                         averageProcessingTime |-> <<0, 0>>,
                         cacheHits |-> 0, cacheMisses |-> 0]]

clearCache(s) == [s EXCEPT !.analysisCache = <<>>]

\* a lookup that goes by the id of the Analysis
getCachedAnalysisById(cache, id) ==
    IF \E i \in 1..Len(cache) : id = [prefix |-> "analysis_", rest |-> <<cache[i].value.id>>]
    THEN cache[CHOOSE i \in 1..Len(cache) :
                  id = [prefix |-> "analysis_", rest |-> <<cache[i].value.id>>]].value
    ELSE NoAnalysis

\* getCachedAnalysis(id): this.analysisCache.get(id).  The strings are
\* [prefix, rest]: a cache key is "email_" and the number of generateCacheKey,
\* an Analysis id is "analysis_" and what generateAnalysisId adds; NoAnalysis
\* stands for undefined
getCachedAnalysis(cache, id) ==
    IF id.prefix = "email_" /\ cacheHas(cache, id.rest)
    THEN cacheGet(cache, id.rest) ELSE NoAnalysis

\* summary.threatsDetected of generateIntelligenceReport, every Analysis of
\* the cache being within the time range
threatsDetected(cache) ==
    Cardinality({i \in 1..Len(cache) : cache[i].value.riskScore > 5000})

\* getStats: the counters, cacheSize and cacheHitRate; the rate is the pair
\* <<numerator, denominator>>, and 0 / 0 || 0 is 0
getStats(st, cache) ==
    [cacheHits |-> st.cacheHits, cacheMisses |-> st.cacheMisses,
     totalAnalyses |-> st.totalAnalyses, threatDetections |-> st.threatDetections,
     averageProcessingTime |-> st.averageProcessingTime,
     cacheSize |-> Len(cache),
     cacheHitRate |-> IF st.cacheHits + st.cacheMisses = 0 THEN <<0, 1>>
                      ELSE << st.cacheHits, st.cacheHits + st.cacheMisses >>]

(***************************************************************************)
(* analyzeEmailBatch                                                       *)
(***************************************************************************)
NoBatch ==
    [pc |-> "none", emails |-> <<>>, i |-> 0, chunk |-> <<>>, all |-> "pending",
     results |-> <<>>]

\* Promise.all(batchPromises) settles: rejected with the first rejection,
\* fulfilled when every promise is; the batch then continues in a microtask
notifyBatch(s) ==
    LET b == s.batch IN
    IF b.pc # "awaiting" \/ b.all # "pending" THEN s
    ELSE IF \E k \in 1..Len(b.chunk) : s.calls[b.chunk[k]].status = "rejected"
    THEN [s EXCEPT !.batch.all = "rejected", !.micro = Append(s.micro, << "batch", 0 >>)]
    ELSE IF \A k \in 1..Len(b.chunk) : s.calls[b.chunk[k]].status = "fulfilled"
    THEN [s EXCEPT !.batch.all = "fulfilled", !.micro = Append(s.micro, << "batch", 0 >>)]
    ELSE s

\* batch.map(email => this.analyzeEmail(email)) for emails[from..to]
RECURSIVE startCalls(_, _, _, _, _)
startCalls(s, emails, from, to, chunk) ==
    IF from > to \/ Len(s.calls) < 0 THEN s
    ELSE startCalls(startCall(s, emails[from], "batch", from, chunk), emails, from + 1, to, chunk)

\* one round of the for loop: the chunk's calls are made, Promise.all awaited
startChunk(s, i) ==
    LET emails == s.batch.emails
        to == Min2(i + MAX_ANALYSIS_BATCH_SIZE, Len(emails))
        t == startCalls(s, emails, i + 1, to, i \div MAX_ANALYSIS_BATCH_SIZE)
    IN notifyBatch([t EXCEPT !.batch.pc = "awaiting", !.batch.i = i,
                             !.batch.all = "pending",
                             !.batch.chunk = [k \in 1..(to - i) |-> Len(s.calls) + k]])

\* a catch block that pushes what the chunk's calls have returned so far
afterChunkPushesAlways(results, all, values) == results \o values

\* the try/catch around the await: the results are pushed, or the error is logged
afterChunk(results, all, values) ==
    IF all = "fulfilled" THEN results \o values ELSE results

\* the await of Promise.all returns or throws; the loop goes on or the method returns
batchResumed(s) ==
    LET b == s.batch
        values == [k \in 1..Len(b.chunk) |-> s.calls[b.chunk[k]].value]
        t == [s EXCEPT !.batch.results = afterChunk(b.results, b.all, values)]
        i == b.i + MAX_ANALYSIS_BATCH_SIZE
    IN IF i < Len(b.emails) THEN startChunk(t, i)
       ELSE [t EXCEPT !.batch.pc = "done"]

(***************************************************************************)
(* Actions                                                                 *)
(***************************************************************************)
NoProbe == [fn |-> "none", email |-> Inputs[1], result |-> DetectorResult(0)]

Init ==
    /\ isInitialized = FALSE
    /\ cleanupTimers = 0
    /\ analysisCache = <<>>
    /\ stats = [totalAnalyses |-> 0, threatDetections |-> 0,
                averageProcessingTime |-> <<0, 0>>, cacheHits |-> 0, cacheMisses |-> 0]
    /\ learningData = <<>>
    /\ nextId = 1
    /\ calls = <<>>
    /\ timerQueue = <<>>
    /\ micro = <<>>
    /\ batch = NoBatch
    /\ probe = NoProbe

\* the lists analyzeEmailBatch is called with: a well-formed email and null,
\* in every order
BatchInputIds == {1, 4}
BatchInputs == UNION {[1..n -> BatchInputIds] : n \in 0..MaxBatchLen}

\* the values of Date.now() - startTime
ProcessingTimes == {0, 1}

\* analyzeEmail(email) called from outside
AnalyzeEmail ==
    /\ micro = <<>>
    /\ Cardinality({c \in 1..Len(calls) : calls[c].parent = "outside"}) < MaxCalls
    /\ \E input \in InputIds : Becomes(startCall(State, input, "outside", 0, 0))
    /\ UNCHANGED probe

\* analyzeEmailBatch(emails) called from outside
AnalyzeEmailBatch ==
    /\ micro = <<>>
    /\ batch.pc = "none"
    /\ \E emails \in BatchInputs :
          LET s == [State EXCEPT !.batch.emails = emails] IN
          IF Len(emails) = 0 THEN Becomes([s EXCEPT !.batch.pc = "done"])
          ELSE Becomes(startChunk(s, 0))
    /\ UNCHANGED probe

\* the oldest pending 100 ms timer expires
TimerFire ==
    /\ micro = <<>>
    /\ timerQueue # <<>>
    /\ Becomes(notifyBatch(timerFired(State)))
    /\ UNCHANGED probe

\* the next promise continuation runs
Microtask ==
    /\ micro # <<>>
    /\ LET m == Head(micro)
           s == [State EXCEPT !.micro = Tail(micro)]
       IN IF m[1] = "batch" THEN Becomes(batchResumed(s))
          ELSE IF calls[m[2]].pc = "awaitAll" THEN Becomes(afterAll(s, m[2]))
          ELSE \E processingTime \in ProcessingTimes :
                  Becomes(notifyBatch(afterAssessment(s, m[2],
                              CompletedAnalysis(calls[m[2]].analysisId, calls[m[2]].input),
                              processingTime)))
    /\ UNCHANGED probe

\* a cleanup timer of setupCacheCleanup expires
Sweep ==
    /\ micro = <<>>
    /\ cleanupTimers > 0
    /\ analysisCache' = cleanup(analysisCache)
    /\ UNCHANGED << isInitialized, cleanupTimers, stats, learningData, nextId, calls,
                    timerQueue, micro, batch, probe >>

\* initialize() called from outside
Initialize ==
    /\ micro = <<>>
    /\ Cardinality({i \in 1..Len(timerQueue) : timerQueue[i] < 0}) < MaxInitializeCalls
    /\ Becomes(initialize(State))
    /\ UNCHANGED probe

\* clearCache() called from outside
ClearCache ==
    /\ micro = <<>>
    /\ Becomes(clearCache(State))
    /\ UNCHANGED probe

Next == AnalyzeEmail \/ AnalyzeEmailBatch \/ TimerFire \/ Microtask \/ Sweep

\* the same with clearCache() called from outside at any time
NextWithClearCache == Next \/ ClearCache

SpecWithClearCache == Init /\ [][NextWithClearCache]_vars

\* analyzeEmail together with initialize() called from outside; without a
\* batch no continuation is ever queued, so Microtask has no step here
NextLifecycle == AnalyzeEmail \/ TimerFire \/ Sweep \/ Initialize

SpecLifecycle == Init /\ [][NextLifecycle]_vars

Spec == Init /\ [][Next]_vars

(***************************************************************************)
(* Properties of analyzeEmail, the cache and analyzeEmailBatch             *)
(***************************************************************************)
CallIds == 1..Len(calls)
wellFormed(c) == ~isInvalidInput(Inputs[calls[c].input])

\* C2: every Analysis a call of analyzeEmail has returned has a riskScore in
\* [0, 100] and the riskLevel of the breakpoint table for that riskScore
C2_RiskLevelMatches ==
    \A c \in CallIds :
        calls[c].status = "fulfilled" =>
            /\ calls[c].value.riskScore \in 0..10000
            /\ calls[c].value.riskLevel = riskLevelOf(calls[c].value.riskScore)

\* C3: when analyzeEmail was called with a well-formed email, returned, and was
\* then called again with the same content, the second call returned the same
\* Analysis (same id and timestamp) as the first
C3_Idempotence ==
    \A c2 \in CallIds : \A c1 \in calls[c2].after :
        ( /\ wellFormed(c1)
          /\ calls[c1].input = calls[c2].input
          /\ calls[c1].status = "fulfilled"
          /\ calls[c2].status = "fulfilled" )
        => calls[c2].value = calls[c1].value

\* C4: a call with a well-formed email that missed the cache has counted one
\* miss and, once it is over, has stored a new Analysis under the email's
\* fingerprint and returned that Analysis
C4_CacheMissProtocol ==
    \A c \in CallIds :
        (calls[c].pc = "done" /\ calls[c].missed) =>
            /\ calls[c].status = "fulfilled"
            /\ calls[c].stored
            /\ ~calls[c].value.error
            /\ calls[c].value.id = calls[c].analysisId
            /\ calls[c].value.cacheKey = cacheKeyOf[calls[c].input]

\* C6: the cache never holds more than maxCacheSize entries
C6_CacheBounded == Len(analysisCache) <= maxCacheSize

\* C6: more well-formed emails than maxCacheSize have been analysed, alone and
\* in a batch, the cleanup timer is running, and the cache is within its bound
C6_Witness ==
    /\ stats.cacheMisses > maxCacheSize
    /\ batch.pc = "done"
    /\ Len(batch.emails) > 0
    /\ cleanupTimers > 0
    /\ \A c \in CallIds : calls[c].pc = "done"
    /\ Len(analysisCache) <= maxCacheSize

\* the calls were made one after the other, each with another well-formed email
sequentialUnique ==
    /\ \A c \in CallIds : calls[c].pc = "done" /\ wellFormed(c)
    /\ \A c1, c2 \in CallIds :
          c1 < c2 => c1 \in calls[c2].after /\ calls[c1].input # calls[c2].input

chunkCalls(j) == {c \in CallIds : calls[c].parent = "batch" /\ calls[c].chunk = j}
chunkFailed(j) == \E c \in chunkCalls(j) : calls[c].status = "rejected"
chunkOf(i) == (i - 1) \div MAX_ANALYSIS_BATCH_SIZE
callOf(i) == CHOOSE c \in CallIds : calls[c].parent = "batch" /\ calls[c].index = i
keptPositions ==
    SelectSeq([i \in 1..Len(batch.emails) |-> i], LAMBDA i : ~chunkFailed(chunkOf(i)))

\* C9: when analyzeEmailBatch has returned, analyzeEmail was called exactly
\* once for each email of the list, and the list returned holds, in input
\* order, what the calls of the chunks without a rejected call returned
C9_BatchIsolation ==
    batch.pc = "done" =>
        /\ \A i \in 1..Len(batch.emails) :
              /\ Cardinality({c \in CallIds :
                                calls[c].parent = "batch" /\ calls[c].index = i}) = 1
              /\ calls[callOf(i)].input = batch.emails[i]
              /\ calls[callOf(i)].chunk = chunkOf(i)
        /\ batch.results = [k \in 1..Len(keptPositions) |-> calls[callOf(keptPositions[k])].value]

\* C9: a batch of three emails has returned whose first chunk held a call that
\* rejected and whose second chunk did not: one Analysis is returned
C9_Witness ==
    /\ batch.pc = "done"
    /\ Len(batch.emails) = 3
    /\ chunkFailed(0)
    /\ ~chunkFailed(1)
    /\ Len(batch.results) = 1
    /\ batch.results[1] = calls[callOf(3)].value

\* C10: every call of analyzeEmailBatch that has not settled belongs to the
\* chunk the batch is at, and no more calls than the chunk size are in flight
C10_ChunksSequential ==
    LET inFlight == {c \in CallIds : calls[c].parent = "batch" /\ calls[c].pc # "done"}
    IN /\ \A c \in inFlight : calls[c].chunk = batch.i \div MAX_ANALYSIS_BATCH_SIZE
       /\ Cardinality(inFlight) <= MAX_ANALYSIS_BATCH_SIZE

\* C11: when two calls for the same well-formed email were in flight at once
\* and both are over (with no more different emails analysed than the cache
\* holds), the cache has exactly one entry for the fingerprint and the two
\* calls returned the same riskScore, riskLevel, category and confidence
C11_ConcurrentSameContent ==
    \A c1, c2 \in CallIds :
        ( /\ c1 < c2
          /\ c1 \notin calls[c2].after
          /\ wellFormed(c1)
          /\ calls[c1].input = calls[c2].input
          /\ calls[c1].pc = "done" /\ calls[c2].pc = "done"
          /\ Cardinality({calls[c].input : c \in CallIds}) <= maxCacheSize )
        => /\ Cardinality({i \in 1..Len(analysisCache) :
                              analysisCache[i].key = cacheKeyOf[calls[c1].input]}) = 1
           /\ calls[c1].value.riskScore = calls[c2].value.riskScore
           /\ calls[c1].value.riskLevel = calls[c2].value.riskLevel
           /\ calls[c1].value.category = calls[c2].value.category
           /\ calls[c1].value.confidence = calls[c2].value.confidence

\* C13: no call of analyzeEmail rejects, and a call with a value that is no
\* email object returned the fallback Analysis (riskScore 0, category
\* 'unknown', confidence 0, error set)
C13_NeverRejects ==
    \A c \in CallIds :
        calls[c].pc = "done" =>
            /\ calls[c].status = "fulfilled"
            /\ ~wellFormed(c) =>
                  /\ calls[c].value.error
                  /\ calls[c].value.riskScore = 0
                  /\ calls[c].value.category = "unknown"
                  /\ calls[c].value.confidence = 0

\* no detector reports the email as a threat and its sentiment score is not
\* below -0.5
noThreatInput(input) ==
    /\ \A t \in ThreatTypes : ~threatAssessmentOf[input][t].detected
    /\ 2 * analyzeSentiment(Inputs[input]).num >= -analyzeSentiment(Inputs[input]).den

\* C14: the Analysis analyzeEmail returned for a well-formed email in which no
\* threat is detected and whose sentiment is not below -0.5 (Scenario C: body
\* 'Thanks for your help, see you Monday') has riskScore 0 and category
\* 'legitimate'
C14_ScenarioC ==
    \A c \in CallIds :
        (calls[c].status = "fulfilled" /\ wellFormed(c) /\ noThreatInput(calls[c].input))
        => /\ calls[c].value.riskScore = 0
           /\ calls[c].value.category = "legitimate"

\* C17: a call of analyzeEmail with an email that has neither body content
\* nor attachments is rejected before a detector runs: it is not counted as
\* a cache miss and returns no Analysis
C17_EmptyContentRejected ==
    \A c \in CallIds :
        ( /\ calls[c].pc = "done"
          /\ wellFormed(c)
          /\ "Email has no body content or attachments"
                \in validateEmail(Inputs[calls[c].input]) )
        => /\ calls[c].status = "rejected"
           /\ ~calls[c].missed

\* C24: two well-formed emails with the same subject, the same sender and
\* the same first KeyBodyChars characters of body have the same cache key,
\* whatever else differs; when one was analysed after the other had
\* returned, the later call was a cache hit, ran no detector and returned
\* the Analysis of the earlier call
C24_KeyIgnoresOtherFields ==
    \A c2 \in CallIds : \A c1 \in calls[c2].after :
        LET e1 == Inputs[calls[c1].input]
            e2 == Inputs[calls[c2].input]
        IN ( /\ wellFormed(c1) /\ wellFormed(c2)
             /\ e1 # e2
             /\ e1.hasHeaders /\ e2.hasHeaders
             /\ e1.subject = e2.subject /\ e1.from = e2.from
             /\ SubSeq(e1.body, 1, Min2(KeyBodyChars, Len(e1.body)))
                   = SubSeq(e2.body, 1, Min2(KeyBodyChars, Len(e2.body)))
             /\ calls[c1].status = "fulfilled"
             /\ calls[c2].pc = "done" )
           => /\ cacheKeyOf[calls[c1].input] = cacheKeyOf[calls[c2].input]
              /\ calls[c2].hit /\ ~calls[c2].missed
              /\ calls[c2].value = calls[c1].value

\* C25: whatever calls of analyzeEmail and initialize are made, and however
\* they interleave, the steps of initialize are run at most once and at most
\* one cache-cleanup timer is created
C25_InitializeOnce ==
    cleanupTimers
        + Cardinality({i \in 1..Len(timerQueue) : timerQueue[i] < 0})
        + Cardinality({c \in CallIds : calls[c].pc \in {"loadThreatSignatures", "loadMLModels"}})
    <= 1

\* C26: a call of analyzeEmail that returned a fallback Analysis has put
\* nothing into the cache, the statistics of completed analyses or the
\* learning data: totalAnalyses counts the calls that returned an Analysis
\* without error after a miss, and those only; and a later call with the
\* same email was a miss again (no other call having stored that email)
C26_FallbackFrame ==
    /\ \A c \in CallIds :
          (calls[c].status = "fulfilled" /\ calls[c].value.error) =>
              /\ ~calls[c].stored
              /\ ~cacheHas(analysisCache, cacheKeyOf[calls[c].input])
                    \/ \E d \in CallIds : d # c /\ calls[d].stored
              /\ \A c2 \in CallIds :
                    ( /\ c \in calls[c2].after
                      /\ calls[c2].input = calls[c].input
                      /\ wellFormed(c2)
                      /\ calls[c2].pc = "done"
                      /\ \A d \in CallIds : ~calls[d].stored )
                    => calls[c2].missed /\ ~calls[c2].hit
    /\ stats.totalAnalyses =
          Cardinality({c \in CallIds : /\ calls[c].status = "fulfilled"
                                       /\ ~calls[c].value.error
                                       /\ calls[c].missed})
    /\ Len(learningData) <= stats.totalAnalyses

\* C26 witness: a call with a well-formed email has missed and returned the
\* fallback Analysis, and a later call with the same email has missed too
C26_Witness ==
    \E c1, c2 \in CallIds :
        /\ c1 \in calls[c2].after
        /\ wellFormed(c1)
        /\ calls[c1].input = calls[c2].input
        /\ calls[c1].status = "fulfilled" /\ calls[c1].value.error /\ calls[c1].missed
        /\ calls[c2].pc = "done" /\ calls[c2].missed
        /\ stats.cacheMisses = 2
        /\ stats.totalAnalyses = 0
        /\ analysisCache = <<>>

\* the calls of analyzeEmail that have passed the input validation
validatedCalls ==
    {c \in CallIds : wellFormed(c) /\ calls[c].pc \notin {"loadThreatSignatures", "loadMLModels"}}

statsConsistent ==
    LET rate == getStats(stats, analysisCache).cacheHitRate
    IN /\ stats.cacheHits + stats.cacheMisses = Cardinality(validatedCalls)
       /\ stats.totalAnalyses <= stats.cacheMisses
       /\ stats.threatDetections <= stats.totalAnalyses
       /\ rate[2] > 0
       /\ rate[1] * (IF stats.cacheHits + stats.cacheMisses = 0 THEN 1
                     ELSE stats.cacheHits + stats.cacheMisses)
             = stats.cacheHits * rate[2]

countersGrow ==
    /\ stats'.cacheHits >= stats.cacheHits
    /\ stats'.cacheMisses >= stats.cacheMisses
    /\ stats'.totalAnalyses >= stats.totalAnalyses
    /\ stats'.threatDetections >= stats.threatDetections

ProbeEmails ==
    {Email("object", TRUE, subject, from, body, attachments, urls) :
        subject \in {"Lunch", "URGENT: verify your account", "Invoice payment"},
        from \in {"alice@example.com", "CEO <ceo@gooogle.com>", ""},
        body \in
            {"Thanks for your help, see you Monday",
             "Urgent: verify your account",
             "Verify and confirm your PayPal bank login: click here, act now",
             "FREE MONEY!!! WIN CASH PRIZE!!! Download, install, run, execute, enable macro"},
        attachments \in {<<>>, << "invoice.pdf.exe" >>, << "report.doc.scr", "setup.exe" >>,
                         << "invoice.pdf.EXE" >>, << CapitalIWithDot \o "nvoice.pdf.exe" >>},
        urls \in {<<>>, << "http://bit.ly/x" >>}}

InitDetectors ==
    /\ isInitialized = FALSE
    /\ cleanupTimers = 0
    /\ analysisCache = <<>>
    /\ stats = [totalAnalyses |-> 0, threatDetections |-> 0,
                averageProcessingTime |-> <<0, 0>>, cacheHits |-> 0, cacheMisses |-> 0]
    /\ learningData = <<>>
    /\ nextId = 1
    /\ calls = <<>>
    /\ timerQueue = <<>>
    /\ micro = <<>>
    /\ batch = NoBatch
    /\ \E email \in ProbeEmails :
          probe = [fn |-> "none", email |-> email, result |-> DetectorResult(0)]

\* what a detector returned is recorded next to the email it was applied to
Probed(fn, result) == [probe EXCEPT !.fn = fn, !.result = result]

DetectPhishing ==
    /\ probe.fn = "none"
    /\ probe' = Probed("detectPhishing", detectPhishing(probe.email))
    /\ UNCHANGED agentVars

DetectMalware ==
    /\ probe.fn = "none"
    /\ probe' = Probed("detectMalware", detectMalware(probe.email))
    /\ UNCHANGED agentVars

DetectSpam ==
    /\ probe.fn = "none"
    /\ probe' = Probed("detectSpam", detectSpam(probe.email))
    /\ UNCHANGED agentVars

DetectSocialEngineering ==
    /\ probe.fn = "none"
    /\ probe' = Probed("detectSocialEngineering", detectSocialEngineering(probe.email))
    /\ UNCHANGED agentVars

DetectBEC ==
    /\ probe.fn = "none"
    /\ probe' = Probed("detectBEC", detectBEC(probe.email))
    /\ UNCHANGED agentVars

NextDetectors ==
    DetectPhishing \/ DetectMalware \/ DetectSpam \/ DetectSocialEngineering \/ DetectBEC

SpecDetectors == InitDetectors /\ [][NextDetectors]_vars

\* C1: whatever email a detector is applied to, the confidence it returns lies
\* in [0, 1] (0..100 hundredths) and its detected flag is true exactly when the
\* confidence is at least THREAT_CONFIDENCE_THRESHOLD
C1_DetectorContract ==
    probe.fn # "none" =>
        /\ probe.result.confidence \in 0..100
        /\ probe.result.detected <=> (probe.result.confidence >= THREAT_CONFIDENCE_THRESHOLD)

\* C1: detectMalware has been applied to an email whose indicators add up to
\* more than 1, and returned confidence 1 and detected
C1_Witness ==
    /\ probe.fn = "detectMalware"
    /\ malwareSum(probe.email) > 100
    /\ probe.result.confidence = 100
    /\ probe.result.detected

\* Scenario A: the body contains 'urgent' and 'verify your account', the one
\* URL is a bit.ly link, and nothing else counts: no further phishing or
\* urgency keyword in body and subject, no spoofed sender domain
scenarioA(email) ==
    LET body == toLowerCase(email.body)
        content == toLowerCase(email.body \o " " \o email.subject)
        fromDomain == extractDomainFromEmail(email.from)
    IN /\ includes(body, "urgent")
       /\ includes(body, "verify your account")
       /\ email.urls = << "http://bit.ly/x" >>
       /\ countIncluded(content, PHISHING_KEYWORDS) = 2
       /\ countIncluded(content, << "urgent", "immediate", "asap", "expires", "deadline" >>) = 1
       /\ ~(Len(fromDomain) > 0 /\ isSpoofedDomain(fromDomain))

\* C15, as the code has it: for a Scenario A email detectPhishing returns
\* confidence 0.40 (keywords 'urgent' and 'verify' 0.10 each, bit.ly 0.15,
\* urgency word 'urgent' 0.05), below the threshold, and detected = false
C15_ScenarioA_Amended ==
    (probe.fn = "detectPhishing" /\ scenarioA(probe.email)) =>
        /\ probe.result.confidence = 40
        /\ ~probe.result.detected

\* C15, as stated: for a Scenario A email detectPhishing returns a confidence
\* of at least 0.7 and detected = true
C15_ScenarioA ==
    (probe.fn = "detectPhishing" /\ scenarioA(probe.email)) =>
        /\ probe.result.confidence >= 70
        /\ probe.result.detected

\* C15: detectPhishing has been applied to a Scenario A email
C15_Witness ==
    /\ probe.fn = "detectPhishing"
    /\ scenarioA(probe.email)
    /\ probe.result.confidence = 40

\* Scenario B: the email has the one attachment invoice.pdf.exe
scenarioB(email) == email.attachments = << "invoice.pdf.exe" >>

malwareKeywordsIn(email) ==
    countIncluded(toLowerCase(email.body),
                  << "download", "install", "run", "execute", "macro", "enable" >>)

\* C16, as the code has it: for a Scenario B email the extension rule and the
\* double-extension rule both fire, detectMalware returns a confidence of at
\* least 0.70 and detected = true; the confidence is 0.70, not 1.0, when the
\* body holds no malware keyword
C16_ScenarioB_Amended ==
    (probe.fn = "detectMalware" /\ scenarioB(probe.email)) =>
        /\ listIncludes(MALWARE_EXTENSIONS, getFileExtension(probe.email.attachments[1]))
        /\ hasDoubleExtension(probe.email.attachments[1])
        /\ probe.result.confidence >= 70
        /\ probe.result.detected
        /\ malwareKeywordsIn(probe.email) = 0 => probe.result.confidence = 70

\* C16, as stated: for a Scenario B email detectMalware returns the clamped
\* confidence 1.0 and detected = true
C16_ScenarioB ==
    (probe.fn = "detectMalware" /\ scenarioB(probe.email)) =>
        /\ probe.result.confidence = 100
        /\ probe.result.detected

\* C16: detectMalware has been applied to a Scenario B email without malware
\* keywords and has returned 0.70 and detected
C16_Witness ==
    /\ probe.fn = "detectMalware"
    /\ scenarioB(probe.email)
    /\ malwareKeywordsIn(probe.email) = 0
    /\ probe.result.confidence = 70
    /\ probe.result.detected

(***************************************************************************)
(* assessThreats with its catch handler and the aggregator on their own    *)
(***************************************************************************)
\* the emails of ProbeEmails, and the same with attachments: [null]
InitThreats ==
    /\ isInitialized = FALSE
    /\ cleanupTimers = 0
    /\ analysisCache = <<>>
    /\ stats = [totalAnalyses |-> 0, threatDetections |-> 0,
                averageProcessingTime |-> <<0, 0>>, cacheHits |-> 0, cacheMisses |-> 0]
    /\ learningData = <<>>
    /\ nextId = 1
    /\ calls = <<>>
    /\ timerQueue = <<>>
    /\ micro = <<>>
    /\ batch = NoBatch
    /\ \E email \in ProbeEmails
                      \cup {[e EXCEPT !.attachments = << NullAttachment >>] :
                               e \in ProbeEmails} :
          probe = [fn |-> "none", email |-> email, result |-> NoThreats]

\* threatAssessment as analyzeEmail gets it from Promise.all
AssessThreats ==
    /\ probe.fn = "none"
    /\ probe' = Probed("assessThreats", threatAssessmentFor(probe.email))
    /\ UNCHANGED agentVars

SpecThreats == InitThreats /\ [][AssessThreats]_vars

\* C12: when detectMalware alone throws, the threat assessment analyzeEmail
\* goes on with holds {detected: false, confidence: 0} for malware and what
\* the other four detectors returned
C12_DetectorIsolation ==
    ( /\ probe.fn = "assessThreats"
      /\ probe.email.hasHeaders
      /\ detectMalwareThrows(probe.email) )
    => /\ probe.result.malware = DetectorResult(0)
       /\ probe.result.phishing = detectPhishing(probe.email)
       /\ probe.result.spam = detectSpam(probe.email)
       /\ probe.result.socialEngineering = detectSocialEngineering(probe.email)
       /\ probe.result.businessEmailCompromise = detectBEC(probe.email)

(***************************************************************************)
(* calculateOverallAssessment on its own: called with the five detector    *)
(* results, the keys of the object in any order, and a sentiment.          *)
(***************************************************************************)
\* each detector reports a confidence of 0, 0.65, 0.7 or 1; the keys come in
\* any of their 120 orders; the sentiment score is 0, -0.5 or -1
InitAssessment ==
    /\ isInitialized = FALSE
    /\ cleanupTimers = 0
    /\ analysisCache = <<>>
    /\ stats = [totalAnalyses |-> 0, threatDetections |-> 0,
                averageProcessingTime |-> <<0, 0>>, cacheHits |-> 0, cacheMisses |-> 0]
    /\ learningData = <<>>
    /\ nextId = 1
    /\ calls = <<>>
    /\ timerQueue = <<>>
    /\ micro = <<>>
    /\ batch = NoBatch
    /\ \E o \in {o \in [1..5 -> ThreatTypes] : \A i, j \in 1..5 : o[i] = o[j] => i = j},
          ta \in [ThreatTypes -> {DetectorResult(c) : c \in {0, 65, 70, 100}}],
          sent \in {[num |-> 0, den |-> 1], [num |-> -1, den |-> 2],
                    [num |-> -1, den |-> 1]} :
          probe = [fn |-> "none", keyOrder |-> o, threatAssessment |-> ta,
                   sentimentAnalysis |-> sent, result |-> NoWeight]

CalculateOverallAssessment ==
    /\ probe.fn = "none"
    /\ probe' = [probe EXCEPT
                   !.fn = "calculateOverallAssessment",
                   !.result = overallAssessment(
                                  weighThreatsIn(probe.keyOrder, probe.threatAssessment,
                                                 1, NoWeight),
                                  probe.sentimentAnalysis)]
    /\ UNCHANGED agentVars

SpecAssessment == InitAssessment /\ [][CalculateOverallAssessment]_vars

detectedThreats(threatAssessment) ==
    {t \in ThreatTypes : threatAssessment[t].detected}

highestConfidence(threatAssessment) ==
    CHOOSE c \in {threatAssessment[t].confidence : t \in detectedThreats(threatAssessment)} :
        \A t \in detectedThreats(threatAssessment) : threatAssessment[t].confidence <= c

\* the first key, in the order of iteration, that holds a detected threat
\* of the highest confidence
firstHighest(keyOrder, threatAssessment) ==
    keyOrder[CHOOSE i \in 1..Len(keyOrder) :
        /\ threatAssessment[keyOrder[i]].detected
        /\ threatAssessment[keyOrder[i]].confidence = highestConfidence(threatAssessment)
        /\ \A j \in 1..(i - 1) :
              ~ ( /\ threatAssessment[keyOrder[j]].detected
                  /\ threatAssessment[keyOrder[j]].confidence
                       = highestConfidence(threatAssessment) )]

\* C18 as amended: the reported confidence is the highest confidence among
\* the detected threats in whatever order the results are iterated; the
\* category is that of a detected threat of that confidence, the first one
\* in the order of iteration when several have it; with no detected threat
\* the category is 'legitimate' and the confidence 0; the category never
\* comes from an undetected threat
C18_HighestDetectedWins_Amended ==
    probe.fn = "calculateOverallAssessment" =>
        IF detectedThreats(probe.threatAssessment) = {}
        THEN probe.result.category = "legitimate" /\ probe.result.confidence = 0
        ELSE /\ probe.result.confidence = highestConfidence(probe.threatAssessment)
             /\ probe.result.category
                  = mapThreatToCategory(firstHighest(probe.keyOrder, probe.threatAssessment))
             /\ \E t \in detectedThreats(probe.threatAssessment) :
                    probe.result.category = mapThreatToCategory(t)

\* C18 as stated: category and reported confidence are those of the detected
\* threat with the highest confidence and do not depend on the order in
\* which the five results are iterated: they are what the order phishing,
\* malware, spam, socialEngineering, businessEmailCompromise gives
C18_HighestDetectedWins ==
    probe.fn = "calculateOverallAssessment" =>
        LET inOrder == calculateOverallAssessment(probe.threatAssessment,
                                                  probe.sentimentAnalysis)
        IN /\ probe.result.category = inOrder.category
           /\ probe.result.confidence = inOrder.confidence
           /\ detectedThreats(probe.threatAssessment) = {}
                => probe.result.category = "legitimate" /\ probe.result.confidence = 0
           /\ detectedThreats(probe.threatAssessment) # {}
                => \E t \in detectedThreats(probe.threatAssessment) :
                       probe.result.category = mapThreatToCategory(t)

\* C18 witness: an assessment of results in which two detected threats share
\* the highest confidence and an undetected threat has a positive one
C18_Witness ==
    /\ probe.fn = "calculateOverallAssessment"
    /\ \E t, u \in detectedThreats(probe.threatAssessment) :
          /\ t # u
          /\ probe.threatAssessment[t].confidence
               = highestConfidence(probe.threatAssessment)
          /\ probe.threatAssessment[u].confidence
               = highestConfidence(probe.threatAssessment)
    /\ \E t \in ThreatTypes :
          /\ ~probe.threatAssessment[t].detected
          /\ probe.threatAssessment[t].confidence > 0
    /\ probe.result.confidence = 70

\* the sum over the detected threats of confidence * weight, with the
\* weights the specification gives, in hundredths of a point
weightedSum(threatAssessment) ==
    LET term(t, weight) ==
            IF threatAssessment[t].detected
            THEN threatAssessment[t].confidence * weight ELSE 0
    IN term("phishing", 30) + term("malware", 25) + term("socialEngineering", 20)
       + term("spam", 15) + term("businessEmailCompromise", 10)

\* C19: riskScore is the sum over the detected threats of confidence * weight
\* * 100 (weights 0.30, 0.25, 0.20, 0.15, 0.10, summing to 1), plus 10 when
\* the sentiment score is < -0.5, clamped to [0, 100]; undetected threats add
\* nothing, and without the penalty the sum does not exceed 100
C19_RiskScore ==
    probe.fn = "calculateOverallAssessment" =>
        LET sum == weightedSum(probe.threatAssessment)
            penalty == IF 2 * probe.sentimentAnalysis.num < -probe.sentimentAnalysis.den
                       THEN 1000 ELSE 0
        IN /\ probe.result.riskScore = Min2(10000, Max2(0, sum + penalty))
           /\ probe.result.riskScore \in 0..10000
           /\ sum <= 10000
           /\ seqSum([i \in 1..5 |-> threatWeights[ThreatOrder[i]]]) = 100

\* C19 witness: an assessment where the penalty applies and the clamp cuts
\* the score, with an undetected threat of positive confidence
C19_Witness ==
    /\ probe.fn = "calculateOverallAssessment"
    /\ 2 * probe.sentimentAnalysis.num < -probe.sentimentAnalysis.den
    /\ weightedSum(probe.threatAssessment) + 1000 > 10000
    /\ probe.result.riskScore = 10000

(***************************************************************************)
(* EmailParser: the four formats and enrichEmailData.  A headers object   *)
(* is the sequence of its [key, value] entries in insertion order.         *)
(***************************************************************************)
\* the white space of String.prototype.trim and of \s that the texts contain
Whitespace == {" ", "\t", "\n", "\r"}
LineTerminators == {"\n", "\r"}

trim(s) ==
    LET solid == {i \in 1..Len(s) : charAt(s, i) \notin Whitespace}
    IN IF solid = {} THEN ""
       ELSE SubSeq(s, CHOOSE i \in solid : \A j \in solid : i <= j,
                      CHOOSE i \in solid : \A j \in solid : i >= j)

\* first position >= from of a character that is not white space, Len(s) + 1
\* when none
firstSolid(s, from) ==
    LET solid == {i \in from..Len(s) : charAt(s, i) \notin Whitespace}
    IN IF solid = {} THEN Len(s) + 1 ELSE CHOOSE i \in solid : \A j \in solid : i <= j

\* headers[key] = value
setHeader(headers, key, value) ==
    IF \E i \in 1..Len(headers) : headers[i].key = key
    THEN [i \in 1..Len(headers) |->
            IF headers[i].key = key THEN [key |-> key, value |-> value] ELSE headers[i]]
    ELSE Append(headers, [key |-> key, value |-> value])

getHeader(headers, key) ==
    headers[CHOOSE i \in 1..Len(headers) : headers[i].key = key].value

\* the loop of parseEMLFormat from line i on; st holds headerSection,
\* headers, currentHeader and bodyLines
RECURSIVE emlScan(_, _, _)
emlScan(lines, i, st) ==
    IF i > Len(lines) THEN st
    ELSE LET line == lines[i] IN
         IF ~st.headerSection
         THEN emlScan(lines, i + 1, [st EXCEPT !.bodyLines = Append(@, line)])
         ELSE IF trim(line) = ""
         THEN emlScan(lines, i + 1, [st EXCEPT !.headerSection = FALSE])
         ELSE IF startsWith(line, " ") \/ startsWith(line, "\t")
         THEN IF st.currentHeader # ""
              THEN emlScan(lines, i + 1,
                     [st EXCEPT !.headers =
                         setHeader(@, st.currentHeader,
                                   getHeader(@, st.currentHeader) \o " " \o trim(line))])
              ELSE emlScan(lines, i + 1, st)
         ELSE LET colon == firstOf(line, {":"}, 1) IN
              IF colon > 1 /\ colon <= Len(line)
              THEN LET key == toLowerCase(SubSeq(line, 1, colon - 1))
                   IN emlScan(lines, i + 1,
                        [st EXCEPT
                           !.currentHeader = key,
                           !.headers = setHeader(@, key,
                                           trim(SubSeq(line, colon + 1, Len(line))))])
              ELSE emlScan(lines, i + 1, st)

\* the loop of parsePlainTextFormat over the first 20 lines
RECURSIVE plainTextScan(_, _, _)
plainTextScan(lines, i, headers) ==
    IF i > Min2(20, Len(lines)) THEN headers
    ELSE LET line == lines[i]
             colon == firstOf(line, {":"}, 1)
             key == trim(toLowerCase(SubSeq(line, 1, colon - 1)))
         IN IF colon > 1 /\ colon <= Len(line) /\ key \in {"from", "to", "subject", "date", "cc", "bcc"}
            THEN plainTextScan(lines, i + 1,
                     setHeader(headers, key, trim(SubSeq(line, colon + 1, Len(line)))))
            ELSE plainTextScan(lines, i + 1, headers)

\* content.match(/Name:\s*(.+)/i) for the pattern name, lower-cased and with
\* its colon: [found, value], value being the trimmed group.  \s* runs over
\* all white space; when only white space follows, the group can still
\* take the text from the last blank or tab on, and no match exists when
\* none follows
matchHeader(content, name) ==
    LET low == toLowerCase(content)
        n == Len(name)
        solidFrom(p) == firstSolid(content, p + n)
        blanksFrom(p) == {j \in (p + n)..Len(content) : charAt(content, j) \in {" ", "\t"}}
        hits == {p \in 1..(Len(content) - n + 1) :
                    /\ SubSeq(low, p, p + n - 1) = name
                    /\ solidFrom(p) <= Len(content) \/ blanksFrom(p) # {}}
    IN IF hits = {} THEN [found |-> FALSE, value |-> ""]
       ELSE LET p == CHOOSE h \in hits : \A g \in hits : h <= g
                q == solidFrom(p)
            IN [found |-> TRUE,
                value |-> IF q <= Len(content)
                          THEN trim(SubSeq(content, q,
                                           firstOf(content, LineTerminators, q) - 1))
                          ELSE ""]

\* the four matches of parseMSGFormat, from the i-th on
RECURSIVE msgHeaders(_, _, _)
msgHeaders(content, i, headers) ==
    LET keys == << "subject", "from", "to", "date" >> IN
    IF i > Len(keys) THEN headers
    ELSE LET m == matchHeader(content, keys[i] \o ":")
         IN msgHeaders(content, i + 1,
                       IF m.found THEN setHeader(headers, keys[i], m.value)
                       ELSE headers)

\* content.split(/^From /m) without its first piece: the texts between the
\* "From " that start a line
mboxSections(content) ==
    LET starts == {i \in 1..(Len(content) - 4) :
                      /\ SubSeq(content, i, i + 4) = "From "
                      /\ i = 1 \/ charAt(content, i - 1) \in LineTerminators}
        nextStart(i) == IF \E j \in starts : j > i
                        THEN CHOOSE j \in starts : j > i /\ \A h \in starts : h > i => j <= h
                        ELSE Len(content) + 1
        section(k) == LET i == CHOOSE j \in starts :
                                   Cardinality({h \in starts : h < j}) = k - 1
                      IN SubSeq(content, i + 5, nextStart(i) - 1)
    IN [k \in 1..Cardinality(starts) |-> section(k)]

(***************************************************************************)
(* extractMetadata: URLs, email addresses and their domains                *)
(***************************************************************************)
\* the end of the match of /(https?:\/\/[^\s]+)/ that starts at i, 0 when none
urlMatchEnd(body, i) ==
    LET at(k) == i + Len(k) - 1 <= Len(body) /\ SubSeq(body, i, i + Len(k) - 1) = k
        after == IF at("https://") THEN i + 8
                 ELSE IF at("http://") THEN i + 7 ELSE 0
    IN IF after = 0 \/ after > Len(body) \/ charAt(body, after) \in Whitespace THEN 0
       ELSE firstOf(body, Whitespace, after) - 1

\* the character classes \w, [A-Za-z0-9._%+-], [A-Za-z0-9.-] and [A-Z|a-z]
CharClasses ==
    LET letters == {charAt(UpperChars \o LowerChars, i) : i \in 1..52}
        lettersAndDigits == letters \cup {charAt("0123456789", i) : i \in 1..10}
    IN [word |-> lettersAndDigits \cup {"_"},
        local |-> lettersAndDigits \cup {".", "_", "%", "+", "-"},
        domain |-> lettersAndDigits \cup {".", "-"},
        tld |-> letters \cup {"|"}]

\* \b between the characters i and i + 1
wordBoundary(s, i) ==
    (i >= 1 /\ i <= Len(s) /\ charAt(s, i) \in CharClasses.word)
        # (i + 1 >= 1 /\ i + 1 <= Len(s) /\ charAt(s, i + 1) \in CharClasses.word)

\* the end of the run of characters of the set cs that starts at i, i - 1
\* when empty
RECURSIVE runEnd(_, _, _)
runEnd(s, cs, i) ==
    IF i > Len(s) \/ charAt(s, i) \notin cs THEN i - 1 ELSE runEnd(s, cs, i + 1)

\* the end of the match of
\* /\b[A-Za-z0-9._%+-]+@[A-Za-z0-9.-]+\.[A-Z|a-z]{2,}\b/ that starts at i, 0
\* when none: the domain part takes the longest text that leaves a dot, and
\* the last part the longest run of at least two characters that ends at a
\* word boundary
emailMatchEnd(body, i) ==
    LET at == runEnd(body, CharClasses.local, i) + 1
        dEnd == runEnd(body, CharClasses.domain, at + 1)
        ends(dot) == {e \in (dot + 2)..runEnd(body, CharClasses.tld, dot + 1) :
                         wordBoundary(body, e)}
        dots == {d \in (at + 2)..dEnd : charAt(body, d) = "." /\ ends(d) # {}}
    IN IF \/ charAt(body, i) \notin CharClasses.local
          \/ ~wordBoundary(body, i - 1)
          \/ at > Len(body) \/ charAt(body, at) # "@"
          \/ dots = {}
       THEN 0
       ELSE LET dot == CHOOSE d \in dots : \A h \in dots : d >= h
            IN CHOOSE e \in ends(dot) : \A h \in ends(dot) : e >= h

\* body.match(regex) with the global flag, regex being urlRegex or
\* emailRegex: the matches from position i on; the search goes on after the
\* end of a match
RECURSIVE matchAll(_, _, _)
matchAll(regex, body, i) ==
    LET matchEnd(j) == IF regex = "urlRegex" THEN urlMatchEnd(body, j)
                       ELSE emailMatchEnd(body, j)
        starts == {j \in i..Len(body) : matchEnd(j) > 0}
    IN IF starts = {} THEN <<>>
       ELSE LET j == CHOOSE h \in starts : \A g \in starts : h <= g
                e == matchEnd(j)
            IN <<SubSeq(body, j, e)>> \o matchAll(regex, body, e + 1)

\* [...new Set(list)]
RECURSIVE unique(_)
unique(list) ==
    IF Len(list) = 0 THEN <<>>
    ELSE LET front == unique(SubSeq(list, 1, Len(list) - 1))
             x == list[Len(list)]
         IN IF listIncludes(front, x) THEN front ELSE Append(front, x)

\* the domain of an extracted URL or address, "" where none is added
domainOfItem(item) ==
    IF includes(item, "@")
    THEN toLowerCase(splitOn(item, {"@"}, FALSE)[2])
    ELSE LET u == parseURL(item) IN IF u.ok THEN u.hostname ELSE ""

\* if (domain) domains.add(domain)
addDomain(domains, domain) ==
    IF domain = "" \/ listIncludes(domains, domain) THEN domains
    ELSE Append(domains, domain)

RECURSIVE domainsOf(_)
domainsOf(items) ==
    IF Len(items) = 0 THEN <<>>
    ELSE addDomain(domainsOf(SubSeq(items, 1, Len(items) - 1)),
                   domainOfItem(items[Len(items)]))

metadataOf(emailAddresses, urls) ==
    [emailAddresses |-> emailAddresses,
     urls |-> urls,
     domains |-> domainsOf(urls \o emailAddresses)]

extractMetadata(email) ==
    metadataOf(unique(matchAll("emailRegex", email.body, 1)),
               unique(matchAll("urlRegex", email.body, 1)))

(***************************************************************************)
(* enrichEmailData and the parsers of the four formats                     *)
(***************************************************************************)
\* the lines kept by filter(line => !line.trim().startsWith('>'))
RECURSIVE unquotedLines(_)
unquotedLines(lines) ==
    IF Len(lines) = 0 THEN <<>>
    ELSE IF startsWith(trim(lines[1]), ">") THEN unquotedLines(Tail(lines))
    ELSE <<lines[1]>> \o unquotedLines(Tail(lines))

\* replace(/\n{3,}/g, '\n\n') from position i on
RECURSIVE collapseNewlines(_, _)
collapseNewlines(s, i) ==
    LET p == firstOf(s, {"\n"}, i) IN
    IF p > Len(s) THEN SubSeq(s, i, Len(s))
    ELSE LET e == runEnd(s, {"\n"}, p)
         IN SubSeq(s, i, p - 1)
            \o (IF e - p + 1 >= 3 THEN "\n\n" ELSE SubSeq(s, p, e))
            \o collapseNewlines(s, e + 1)

\* the filter without trim(): only a ">" in the first column marks a quoted line
cleanEmailBodyFirstColumn(body) ==
    IF body = "" THEN ""
    ELSE LET lines == splitOn(body, {"\n"}, FALSE)
             kept == {i \in 1..Len(lines) : ~startsWith(lines[i], ">")}
             keptLine(k) == lines[CHOOSE i \in kept :
                                     Cardinality({j \in kept : j < i}) = k - 1]
         IN trim(collapseNewlines(
                   joinWith([k \in 1..Cardinality(kept) |-> keptLine(k)], "\n"), 1))

cleanEmailBody(body) ==
    IF body = "" THEN ""
    ELSE trim(collapseNewlines(
                 joinWith(unquotedLines(splitOn(body, {"\n"}, FALSE)), "\n"), 1))

RECURSIVE normalizeHeadersFrom(_, _, _)
normalizeHeadersFrom(headers, i, normalized) ==
    IF i > Len(headers) THEN normalized
    ELSE normalizeHeadersFrom(headers, i + 1,
             setHeader(normalized, trim(toLowerCase(headers[i].key)), headers[i].value))

normalizeHeaders(headers) == normalizeHeadersFrom(headers, 1, <<>>)

\* new Date(text) for a text in the date-time format YYYY-MM-DDTHH:mm, which
\* is read as local time: [valid, hour, weekday], hour being getHours() and
\* weekday the day of the week of the local date (0 is Sunday).  The other
\* texts of the modelled files are texts that Date.parse does not recognize:
\* new Date then gives an Invalid Date and does not throw
parseDate(text) ==
    LET digit(i) == PosIn("0123456789", charAt(text, i)) - 1
        two(i) == 10 * digit(i) + digit(i + 1)
        year == 100 * two(1) + two(3)
        month == two(6)
        day == two(9)
        leap == (year % 4 = 0 /\ year % 100 # 0) \/ year % 400 = 0
        daysInMonth == IF month = 2 THEN (IF leap THEN 29 ELSE 28)
                       ELSE IF month \in {4, 6, 9, 11} THEN 30 ELSE 31
        y == IF month < 3 THEN year - 1 ELSE year
        shift == <<0, 3, 2, 5, 0, 3, 5, 1, 4, 6, 2, 4>>
    IN IF /\ Len(text) = 16
          /\ \A i \in {1, 2, 3, 4, 6, 7, 9, 10, 12, 13, 15, 16} : digit(i) >= 0
          /\ charAt(text, 5) = "-" /\ charAt(text, 8) = "-"
          /\ charAt(text, 11) = "T" /\ charAt(text, 14) = ":"
          /\ month \in 1..12 /\ day \in 1..daysInMonth
          /\ two(12) \in 0..23 /\ two(15) \in 0..59
       THEN [valid |-> TRUE, hour |-> two(12),
             weekday |-> (y + (y \div 4) - (y \div 100) + (y \div 400)
                             + shift[month] + day) % 7]
       ELSE [valid |-> FALSE, hour |-> 0, weekday |-> 0]

\* the timestamp fields of extractCommunicationPatterns, "" standing for
\* null.  Of an Invalid Date getHours() is NaN, which fails every
\* comparison, and toLocaleDateString gives "Invalid Date"; nothing in the
\* try block throws
extractCommunicationPatterns(email) ==
    IF \A i \in 1..Len(email.headers) :
          email.headers[i].key = "date" => email.headers[i].value = ""
    THEN [timeSlot |-> "", dayOfWeek |-> ""]
    ELSE LET date == parseDate(getHeader(email.headers, "date"))
             hour == date.hour
         IN [timeSlot |-> IF date.valid /\ hour >= 6 /\ hour < 12 THEN "morning"
                          ELSE IF date.valid /\ hour >= 12 /\ hour < 18 THEN "afternoon"
                          ELSE IF date.valid /\ hour >= 18 /\ hour < 22 THEN "evening"
                          ELSE "night",
             dayOfWeek |-> IF date.valid
                           THEN << "Sunday", "Monday", "Tuesday", "Wednesday",
                                   "Thursday", "Friday", "Saturday" >>[date.weekday + 1]
                           ELSE "Invalid Date"]

\* the metadata is extracted from the email as parsed, before the body is
\* cleaned and the headers are normalized
enrichEmailData(email) ==
    [headers |-> normalizeHeaders(email.headers),
     body |-> cleanEmailBody(email.body),
     attachments |-> <<>>,
     metadata |-> extractMetadata(email) @@ extractCommunicationPatterns(email)]

\* the scan without its two phases: a header line after the blank line
\* still sets its header
parseEMLFormatOnePhase(content) ==
    LET lines == splitOn(content, {"\n"}, FALSE)
        start == [headerSection |-> TRUE, headers |-> <<>>,
                  currentHeader |-> "", bodyLines |-> <<>>]
        solid(line) == trim(line) # ""
    IN enrichEmailData([headers |-> emlScan(SelectSeq(lines, solid), 1, start).headers,
                        body |-> joinWith(emlScan(lines, 1, start).bodyLines, "\n")])

parseEMLFormat(content) ==
    LET st == emlScan(splitOn(content, {"\n"}, FALSE), 1,
                      [headerSection |-> TRUE, headers |-> <<>>,
                       currentHeader |-> "", bodyLines |-> <<>>])
    IN enrichEmailData([headers |-> st.headers, body |-> joinWith(st.bodyLines, "\n")])

parseMSGFormat(content) ==
    enrichEmailData([headers |-> msgHeaders(content, 1, <<>>), body |-> content])

parsePlainTextFormat(content) ==
    enrichEmailData([headers |-> plainTextScan(splitOn(content, {"\n"}, FALSE), 1, <<>>),
                     body |-> content])

\* the emails of parseMboxFormat; it returns the only one itself, and an
\* array otherwise
parseMboxFormat(content) ==
    LET sections == mboxSections(content)
    IN [i \in 1..Len(sections) |-> parseEMLFormat("From " \o sections[i])]

\* parseEmailFile: [error, isArray, emails], error being "" when an email
\* or an array of emails is returned.  readFileContent rejects when the
\* FileReader fails (file.readable is FALSE), before the extension is looked at
parseEmailFile(file) ==
    LET extension == getFileExtension(file.name)
        returned(emails, isArray) ==
            [error |-> "", isArray |-> isArray, emails |-> emails]
    IN CASE ~file.readable ->
                [error |-> "Failed to read file", isArray |-> FALSE, emails |-> <<>>]
         [] extension = ".eml" -> returned(<<parseEMLFormat(file.content)>>, FALSE)
         [] extension = ".msg" -> returned(<<parseMSGFormat(file.content)>>, FALSE)
         [] extension = ".txt" -> returned(<<parsePlainTextFormat(file.content)>>, FALSE)
         [] extension = ".mbox" ->
                LET emails == parseMboxFormat(file.content)
                IN returned(emails, Len(emails) # 1)
         [] OTHER -> [error |-> "Unsupported file format: " \o extension,
                      isArray |-> FALSE, emails |-> <<>>]

(***************************************************************************)
(* The parser on its own: parseEmailFile on a file of any name, which      *)
(* the FileReader reads or fails to read.                                  *)
(***************************************************************************)
NoParse == [error |-> "", isArray |-> FALSE, emails |-> <<>>]

InitParser ==
    /\ isInitialized = FALSE
    /\ cleanupTimers = 0
    /\ analysisCache = <<>>
    /\ stats = [totalAnalyses |-> 0, threatDetections |-> 0,
                averageProcessingTime |-> <<0, 0>>, cacheHits |-> 0, cacheMisses |-> 0]
    /\ learningData = <<>>
    /\ nextId = 1
    /\ calls = <<>>
    /\ timerQueue = <<>>
    /\ micro = <<>>
    /\ batch = NoBatch
    /\ \E name \in {"mail.eml", "MAIL.EML", "mail.msg", "mail.Txt", "a.b.MBox",
                      "mail.pdf", "mail", "eml", "mail.eml.exe", "mail.eml ",
                      CapitalIWithDot \o "stanbul.eml"},
          readable \in BOOLEAN,
          headerBlock \in
              {"Subject: Hi\nFrom: Bob <bob@Example.COM>",
               "SUBJECT : Re: Offer\n continued\nX-Mailer : Foo\nsubject: Last",
               "From bob@example.com Mon Jan 1\nDate: today\nTo:",
               "Subject: Win\n\tbig  \nFrom:\nno colon\n Ann <a@b.io>\r\nTo: x",
               "Date: 2024-01-01T05:59", "Date: 2024-01-02T06:00", "Date: 2024-02-29T11:59",
               "DATE: 2024-03-01T12:00\r", "Date: 2023-12-31T17:59", "Date: 2026-11-07T18:00",
               "Date: 2024-01-04T21:59", "Date: 2024-01-05T22:00", "Date: yesterday evening",
               "Date : 2024-01-03T10:00",
               ""},
          body \in
              {"Hello\n> quoted\nbye",
               "see http://Bit.ly/x and http://bit.ly/y\n\n\n\n  > old\nmail Bob@Example.com bob@example.COM",
               "",
               " \n>\n",
               "ok\nFrom carol@x.org Tue\nSubject: Two\n\n> q\nFrom: end",
               "x\r> carriage\n>> deep\nhttps://user@Host.io/a https://xn--a.io"} :
          probe = [fn |-> "none",
                   file |-> [name |-> name,
                             readable |-> readable,
                             content |-> IF headerBlock = "" THEN body
                                         ELSE headerBlock \o "\n\n" \o body],
                   result |-> NoParse]

ParseEmailFile ==
    /\ probe.fn = "none"
    /\ probe' = [probe EXCEPT !.fn = "parseEmailFile",
                              !.result = parseEmailFile(probe.file)]
    /\ UNCHANGED agentVars

SpecParser == InitParser /\ [][ParseEmailFile]_vars

\* the lines of a text, and whether the first character of a line that is
\* not white space is ">"
isQuotedLine(line) ==
    firstSolid(line, 1) <= Len(line) /\ charAt(line, firstSolid(line, 1)) = ">"

isLowerCase(s) == \A i \in 1..Len(s) : PosIn(UpperChars, charAt(s, i)) = 0

isTrimmed(s) ==
    s = "" \/ (charAt(s, 1) \notin Whitespace /\ charAt(s, Len(s)) \notin Whitespace)

\* C20: every email the parser returns, by any of the four formats, has
\* header keys that are lower-case and trimmed, a body without a line whose
\* first non-blank character is ">", and metadata.domains lower-cased and
\* free of duplicates
C20_ParsedEmailInvariant ==
    probe.fn = "parseEmailFile" =>
        \A n \in 1..Len(probe.result.emails) :
            LET email == probe.result.emails[n]
                lines == splitOn(email.body, {"\n"}, FALSE)
                domains == email.metadata.domains
            IN /\ \A i \in 1..Len(email.headers) :
                      /\ isLowerCase(email.headers[i].key)
                      /\ isTrimmed(email.headers[i].key)
                      /\ \A j \in 1..Len(email.headers) :
                            email.headers[i].key = email.headers[j].key => i = j
               /\ \A i \in 1..Len(lines) : ~isQuotedLine(lines[i])
               /\ \A i \in 1..Len(domains) :
                      /\ isLowerCase(domains[i])
                      /\ \A j \in 1..Len(domains) : domains[i] = domains[j] => i = j

\* C20 witness: an EML file with an upper-case header key followed by a
\* blank, an indented quoted line and one domain written in two cases is
\* parsed into an email with the key "subject" and the domain once
C20_Witness ==
    /\ probe.fn = "parseEmailFile"
    /\ probe.file.name = "MAIL.EML"
    /\ includes(probe.file.content, "SUBJECT :")
    /\ includes(probe.file.content, "\n  > old\n")
    /\ includes(probe.file.content, "Bob@Example.com bob@example.COM")
    /\ Len(probe.result.emails) = 1
    /\ \E i \in 1..Len(probe.result.emails[1].headers) :
          probe.result.emails[1].headers[i].key = "subject"
    /\ probe.result.emails[1].metadata.domains = << "bit.ly", "example.com" >>

\* whether the name ends with the extension, in any case of its letters
hasExtension(name, extension) ==
    /\ Len(name) >= Len(extension)
    /\ toLowerCase(SubSeq(name, Len(name) - Len(extension) + 1, Len(name))) = extension

\* C21: a file that was read and whose name ends with none of .eml, .msg,
\* .txt and .mbox fails with the unsupported-format error and no email is
\* returned; a name that ends with one of them, in any case, gets the
\* result of the parser of that format and of no other
C21_ExtensionDispatch ==
    (probe.fn = "parseEmailFile" /\ probe.file.readable) =>
        LET name == probe.file.name
            content == probe.file.content
            result == probe.result
        IN /\ (\A x \in {".eml", ".msg", ".txt", ".mbox"} : ~hasExtension(name, x)) =>
                 /\ startsWith(result.error, "Unsupported file format: ")
                 /\ result.emails = <<>>
           /\ hasExtension(name, ".eml") =>
                 result.error = "" /\ result.emails = <<parseEMLFormat(content)>>
           /\ hasExtension(name, ".msg") =>
                 result.error = "" /\ result.emails = <<parseMSGFormat(content)>>
           /\ hasExtension(name, ".txt") =>
                 result.error = "" /\ result.emails = <<parsePlainTextFormat(content)>>
           /\ hasExtension(name, ".mbox") =>
                 result.error = "" /\ result.emails = parseMboxFormat(content)

\* the lines of an EML content before its first blank line, and after it
sectionsOf(content) ==
    LET lines == splitOn(content, {"\n"}, FALSE)
        blank == {i \in 1..Len(lines) : trim(lines[i]) = ""}
        b == IF blank = {} THEN Len(lines) + 1
             ELSE CHOOSE i \in blank : \A j \in blank : i <= j
    IN [headerLines |-> SubSeq(lines, 1, b - 1),
        bodyLines |-> SubSeq(lines, b + 1, Len(lines))]

isContinuation(line) == startsWith(line, " ") \/ startsWith(line, "\t")

\* the name a header line defines, lower-cased and trimmed; "" for a line
\* that defines none
headerNameOf(line) ==
    LET colon == firstOf(line, {":"}, 1)
    IN IF isContinuation(line) \/ colon = 1 \/ colon > Len(line) THEN ""
       ELSE trim(toLowerCase(SubSeq(line, 1, colon - 1)))

\* the value of the header line i: the trimmed text after its colon, then
\* the trimmed text of every continuation line whose previous header line
\* is i, each after a single space
unfoldedValue(lines, i) ==
    LET continues(j) == /\ isContinuation(lines[j])
                        /\ \A k \in (i + 1)..(j - 1) : headerNameOf(lines[k]) = ""
        js == {j \in (i + 1)..Len(lines) : continues(j)}
        nth(n) == CHOOSE j \in js : Cardinality({h \in js : h < j}) = n - 1
    IN joinWith(<<trim(SubSeq(lines[i], firstOf(lines[i], {":"}, 1) + 1, Len(lines[i])))>>
                    \o [n \in 1..Cardinality(js) |-> trim(lines[nth(n)])], " ")

\* C22: of an EML file, the headers are those of the lines before the first
\* blank line alone; a name that one header line defines (Subject: and From:
\* among them) has that line's value, unfolded over its continuation lines;
\* a name that no header line defines is absent; the body is made of the
\* lines after the first blank line
C22_EmlTwoPhaseScan ==
    (probe.fn = "parseEmailFile" /\ probe.result.error = ""
        /\ hasExtension(probe.file.name, ".eml")) =>
        LET email == probe.result.emails[1]
            sections == sectionsOf(probe.file.content)
            lines == sections.headerLines
            defining(name) == {i \in 1..Len(lines) : headerNameOf(lines[i]) = name}
            names == {headerNameOf(lines[i]) : i \in 1..Len(lines)} \cup {"subject", "from"}
            has(name) == \E h \in 1..Len(email.headers) : email.headers[h].key = name
        IN /\ email.headers = parseEMLFormat(joinWith(lines, "\n")).headers
           /\ email.body = cleanEmailBody(joinWith(sections.bodyLines, "\n"))
           /\ \A name \in names \ {""} :
                 /\ defining(name) = {} => ~has(name)
                 /\ Cardinality(defining(name)) = 1 =>
                       /\ has(name)
                       /\ getHeader(email.headers, name) =
                              unfoldedValue(lines, CHOOSE i \in defining(name) : TRUE)

\* C22 witness: Subject: and From: lines with continuation lines, and a body
\* that holds Subject: and From: lines of its own
C22_Witness ==
    /\ probe.fn = "parseEmailFile"
    /\ probe.file.name = "mail.eml"
    /\ startsWith(probe.file.content, "Subject: Win\n\tbig  \nFrom:\nno colon\n Ann")
    /\ includes(probe.file.content, "\n\nok\nFrom carol@x.org Tue\nSubject: Two\n\n> q\nFrom: end")
    /\ Len(probe.result.emails) = 1
    /\ getHeader(probe.result.emails[1].headers, "subject") = "Win big"
    /\ getHeader(probe.result.emails[1].headers, "from") = " Ann <a@b.io>"
    /\ probe.result.emails[1].body = "ok\nFrom carol@x.org Tue\nSubject: Two\n\nFrom: end"

\* C23: an email parsed with a Date header that Date reads has the time
\* slot of its hour, morning [6,12), afternoon [12,18), evening [18,22) and
\* night otherwise, and the name of its weekday; one with a Date header that
\* Date cannot read has timeSlot and dayOfWeek unset (null), and is
\* returned all the same
C23_DateHandling ==
    (probe.fn = "parseEmailFile" /\ probe.file.readable
        /\ getFileExtension(probe.file.name) \in {".eml", ".msg", ".txt"}) =>
        /\ probe.result.error = ""
        /\ \A n \in 1..Len(probe.result.emails) :
              LET email == probe.result.emails[n]
                  dated == \E i \in 1..Len(email.headers) :
                              email.headers[i].key = "date" /\ email.headers[i].value # ""
                  date == parseDate(getHeader(email.headers, "date"))
                  slot == CASE date.hour \in 6..11 -> "morning"
                            [] date.hour \in 12..17 -> "afternoon"
                            [] date.hour \in 18..21 -> "evening"
                            [] OTHER -> "night"
                  names == [d \in 0..6 |->
                              CASE d = 0 -> "Sunday" [] d = 1 -> "Monday"
                                [] d = 2 -> "Tuesday" [] d = 3 -> "Wednesday"
                                [] d = 4 -> "Thursday" [] d = 5 -> "Friday"
                                [] OTHER -> "Saturday"]
              IN dated =>
                   IF date.valid
                   THEN /\ email.metadata.timeSlot = slot
                        /\ email.metadata.dayOfWeek = names[date.weekday]
                   ELSE /\ email.metadata.timeSlot = ""
                        /\ email.metadata.dayOfWeek = ""

(***************************************************************************)
(* The end of analyzeEmail's try block on its own: the Analysis that       *)
(* calculateOverallAssessment returned gets its metadata and is stored,    *)
(* updateStats counts it, and getCachedAnalysis looks it up.               *)
(***************************************************************************)
InitStats ==
    /\ isInitialized = TRUE
    /\ cleanupTimers = 1
    /\ analysisCache = <<>>
    /\ stats = [totalAnalyses |-> 0, threatDetections |-> 0,
                averageProcessingTime |-> <<0, 0>>, cacheHits |-> 0, cacheMisses |-> 1]
    /\ learningData = <<>>
    /\ nextId = 2
    /\ calls = <<>>
    /\ timerQueue = <<>>
    /\ micro = <<>>
    /\ batch = NoBatch
    /\ \E ta \in [ThreatTypes -> {DetectorResult(c) : c \in {0, 65, 70, 100}}],
          sent \in {[num |-> 0, den |-> 1], [num |-> -1, den |-> 1]} :
          probe = [fn |-> "none", keyOrder |-> ThreatOrder, threatAssessment |-> ta,
                   sentimentAnalysis |-> sent, result |-> NoWeight,
                   analysis |-> NoAnalysis, id |-> [prefix |-> "", rest |-> <<>>],
                   found |-> NoAnalysis]

\* lines 174-187 of analyzeEmail for the email Inputs[1]
StoreAnalysis ==
    /\ probe.fn = "calculateOverallAssessment"
    /\ \E processingTime \in ProcessingTimes :
          LET analysis == withMetadata(probe.result, 1, cacheKeyOf[1])
          IN /\ analysisCache' = cacheSet(analysisCache, analysis.cacheKey, analysis)
             /\ stats' = updateStats(stats, analysis, processingTime)
             /\ learningData' = addToLearningData(learningData, analysis)
             /\ probe' = [probe EXCEPT !.fn = "storeAnalysis", !.analysis = analysis]
    /\ UNCHANGED << isInitialized, cleanupTimers, nextId, calls, timerQueue, micro, batch >>

\* getCachedAnalysis called with the cache key, or with the id, of the Analysis
GetCachedAnalysis ==
    /\ probe.fn = "storeAnalysis"
    /\ \E id \in {[prefix |-> "email_", rest |-> probe.analysis.cacheKey],
                   [prefix |-> "analysis_", rest |-> <<probe.analysis.id>>]} :
          probe' = [probe EXCEPT !.fn = "getCachedAnalysis", !.id = id,
                                 !.found = getCachedAnalysis(analysisCache, id)]
    /\ UNCHANGED agentVars

SpecStats ==
    InitStats
    /\ [][CalculateOverallAssessment \/ StoreAnalysis \/ GetCachedAnalysis
            \/ ClearCache \/ Sweep]_vars

\* C28: updateStats counts a completed Analysis as a threat detection
\* exactly when its riskScore is above 50 (5000 hundredths): a counted
\* Analysis has riskLevel high or critical, one with riskScore 50 has
\* riskLevel high and is not counted, nor is one with a detected threat and
\* a riskScore of at most 50; summary.threatsDetected of the report counts
\* the same analyses
C28_ThreatDetectionsAbove50 ==
    probe.fn \in {"storeAnalysis", "getCachedAnalysis"} =>
        LET a == probe.analysis
            threat == \E t \in ThreatTypes : probe.threatAssessment[t].detected
        IN /\ stats.totalAnalyses = 1
           /\ stats.threatDetections = IF a.riskScore > 5000 THEN 1 ELSE 0
           /\ stats.threatDetections = 1 => a.riskLevel \in {"high", "critical"}
           /\ a.riskScore = 5000 => a.riskLevel = "high" /\ stats.threatDetections = 0
           /\ (threat /\ a.riskScore <= 5000) => stats.threatDetections = 0
           /\ analysisCache # <<>> => threatsDetected(analysisCache) = stats.threatDetections

\* C28 witness: an Analysis with two detected threats and a riskScore of
\* exactly 50 was stored with riskLevel high and not counted
C28_Witness ==
    /\ probe.fn = "storeAnalysis"
    /\ probe.threatAssessment["phishing"].detected
    /\ probe.threatAssessment["socialEngineering"].detected
    /\ probe.analysis.riskScore = 5000
    /\ probe.analysis.riskLevel = "high"
    /\ stats.totalAnalyses = 1
    /\ stats.threatDetections = 0
    /\ threatsDetected(analysisCache) = 0

\* C29: every lookup of a stored Analysis finds it under its cache key for
\* as long as the cache holds it, and finds nothing under its id
C29_CacheIndexedByKey ==
    [][GetCachedAnalysis =>
          /\ probe.analysis.cacheKey = cacheKeyOf[1]
          /\ probe'.id.prefix = "email_" =>
                probe'.found = (IF analysisCache # <<>> THEN probe.analysis ELSE NoAnalysis)
          /\ probe'.id.prefix = "analysis_" => probe'.found = NoAnalysis]_vars

\* C29 witness: a stored Analysis was looked up by its id, with nothing found
C29_Witness ==
    /\ probe.fn = "getCachedAnalysis"
    /\ probe.id = [prefix |-> "analysis_", rest |-> <<probe.analysis.id>>]
    /\ probe.analysis.id = 1
    /\ cacheHas(analysisCache, probe.analysis.cacheKey)
    /\ cacheGet(analysisCache, probe.analysis.cacheKey) = probe.analysis
    /\ probe.found = NoAnalysis

\* C30: in detectMalware an attachment for which the double-extension rule
\* fires also fires the direct-extension rule, adds 0.70 in total and makes
\* malware detected; the single attachment invoice.pdf.EXE fires only the
\* direct rule and, with no malware keyword in the body, gives a confidence
\* of 0.40 and no detection
C30_DoubleExtensionImpliesDirect ==
    probe.fn = "detectMalware" =>
        LET names == probe.email.attachments IN
        /\ \A i \in 1..Len(names) :
              hasDoubleExtension(names[i]) =>
                  /\ listIncludes(MALWARE_EXTENSIONS, getFileExtension(names[i]))
                  /\ malwareAttachmentScore(names[i]) = 70
                  /\ probe.result.confidence >= 70
                  /\ probe.result.detected
        /\ names = << "invoice.pdf.EXE" >> =>
              /\ ~hasDoubleExtension(names[1])
              /\ listIncludes(MALWARE_EXTENSIONS, getFileExtension(names[1]))
              /\ malwareKeywordsIn(probe.email) = 0 =>
                    probe.result.confidence = 40 /\ ~probe.result.detected

====
